---- MODULE Spec2Model ----
(***************************************************************************)
(* Model of ai-terminal-chat.  The security layer (src/security_utils.py): *)
(* the sliding-window rate limiter of SecurityManager, the encrypted       *)
(* configuration store of SecureConfigManager, the validators.  The        *)
(* application: the launcher (src/ai_chat.py), the chat program            *)
(* (src/ai_chat_en.py) and the migration (src/config_migration.py).        *)
(***************************************************************************)
EXTENDS Integers, Sequences, FiniteSets, TLC

VARIABLES
    now,          \* the wall clock read by datetime.now()
    rate_limits,  \* SecurityManager.rate_limits, the in-memory ledger and limits
    rate_file,    \* rate_limits.json: missing, not valid JSON, or the JSON it holds
    rl_last,      \* the last rate-limiter operation: its inputs and its result
    admitted,     \* history: the instants of all admitted requests, in call order
    writeFailed,  \* some write of rate_limits.json failed so far
    secure_file,  \* secure_config.json: missing, not valid JSON, or the JSON it holds
    entropy,      \* the number of values os.urandom() has returned so far
    cfg_last,     \* the last operation on the secure configuration and its result
    caller,       \* the record and the master password the caller of save holds
    saved,        \* secure_config.json is as the last successful save wrote it
    damaged,      \* a blob of secure_config.json was altered since it was written
    issued,       \* history: the blobs encrypt_sensitive_data() returned, in call order
    arg,          \* the function and the arguments of a call of a validator
    res,          \* the result of that call, once it has returned
    config_file,  \* config.json: missing, not valid JSON, or the JSON it holds
    backup_files, \* the config_backup_<seconds>.json files, by their seconds
    language_file,\* language_config.json: missing, not valid JSON, or the JSON it holds
    forced,       \* history: the language last forced with --lang, the last --reset-lang
    app_last      \* the last run of a program of the application and its result

rl_vars == <<rate_limits, rate_file, rl_last, admitted, writeFailed>>
cfg_vars == <<secure_file, entropy, cfg_last, caller, saved, damaged, issued>>
val_vars == <<arg, res>>
app_vars == <<config_file, backup_files, language_file, forced, app_last>>
vars == <<now, rl_vars, cfg_vars, val_vars, app_vars>>

(***************************************************************************)
(* Bounds of the model.                                                    *)
(***************************************************************************)
MaxLimit == 3      \* configured limits range over 1..MaxLimit
MaxAdmitted == 3   \* admitted requests per behaviour
MaxDraws == 8      \* values drawn from os.urandom() per behaviour
MaxPieces == 3     \* pieces a text given to validate_input_safety is made of
MaxMaskLen == 10   \* length of the keys given to mask_api_key
MaxTail == 2       \* characters after the body of a file name
MaxDelta == 1      \* distance of a key's length from the length a pattern asks for
MaxSeconds == 2    \* seconds that pass while the configuration is migrated

(***************************************************************************)
(* Time.  One unit is one second; timedelta(minutes=1), timedelta(hours=1) *)
(* and timedelta(days=1) keep their lengths.                               *)
(***************************************************************************)
Minute == 60
Hour == 3600
Day == 86400

\* The instants the clock is observed at: the start and one second later, and
\* one minute, one hour and one day after each, so that a request made at the
\* start is exactly on a window's edge when one made a second later is still
\* inside the window.
Times == {b + o : b \in {0, Minute, Hour, Day}, o \in {0, 1}}

\* datetime.isoformat(): the instant as calendar fields <<days, hours, minutes, seconds>>
isoformat(t) ==
    <<t \div Day, (t % Day) \div Hour, (t % Hour) \div Minute, t % Minute>>

\* datetime.fromisoformat(): the instant the calendar fields denote
fromisoformat(s) ==
    s[1] * Day + s[2] * Hour + s[3] * Minute + s[4]

\* The outcome of a call: a returned value, or an exception
Returned(v) == [ok |-> TRUE, val |-> v]
Raised == [ok |-> FALSE]

(***************************************************************************)
(* rate_limits.json                                                        *)
(***************************************************************************)
\* The record load_rate_limits() returns when the file is missing or invalid
DefaultRateLimits ==
    [requests |-> <<>>, daily_limit |-> 1000, hourly_limit |-> 100, minute_limit |-> 10]

\* A rate_limits.json written by the user with limits of their own, the
\* limit of a window no greater than that of the window that contains it
ConfiguredRateLimits ==
    {r \in {[requests |-> <<>>, daily_limit |-> d, hourly_limit |-> h, minute_limit |-> m] :
                d \in 1..MaxLimit, h \in 1..MaxLimit, m \in 1..MaxLimit} :
        r.minute_limit <= r.hourly_limit /\ r.hourly_limit <= r.daily_limit}

\* The states of a file: absent, present but not valid JSON, or holding a JSON value
MissingFile == [kind |-> "missing"]
CorruptFile == [kind |-> "corrupt"]
JsonFile(data) == [kind |-> "json", data |-> data]

\* A file that exists and that open() refuses (permission denied), and a file
\* in a directory that may not be searched, which stat() refuses
UnreadableFile == [kind |-> "unreadable"]
NoAccessFile == [kind |-> "no_access"]

\* Path.exists(): false when stat() reports that there is no such file; any
\* other error of stat(), permission denied among them, is raised
exists(file) ==
    CASE file.kind = "missing" -> Returned(FALSE)
      [] file.kind = "no_access" -> Raised
      [] OTHER -> Returned(TRUE)

\* load_rate_limits(): the file's content when it exists and parses, else the defaults
load_rate_limits(file) ==
    IF file.kind = "json" THEN file.data ELSE DefaultRateLimits

\* The exceptions load_rate_limits() lets through: those of exists(), and
\* those of open() and json.load() other than JSONDecodeError and FileNotFoundError
LoadRateLimitsRaises(file) ==
    ~exists(file).ok \/ file.kind = "unreadable"

\* The outcomes of save_rate_limits(): the dump succeeds; open() fails and leaves
\* the file as it was; open() truncated the file and the dump failed.  The
\* exception is logged and swallowed in every case.
WriteOutcomes == {"ok", "open_failed", "dump_failed"}

save_rate_limits(limits, file, outcome) ==
    CASE outcome = "ok" -> JsonFile(limits)
      [] outcome = "open_failed" -> file
      [] outcome = "dump_failed" -> CorruptFile

(***************************************************************************)
(* check_rate_limit()                                                      *)
(***************************************************************************)
\* Variant: the clean-up keeps every request, however old
KeepRequest_NoCleanUp(req_time, t) == TRUE

\* The filter of the clean-up: a request is kept when it is newer than one day
KeepRequest(req_time, t) == fromisoformat(req_time) > t - Day

\* The ledger after the clean-up
CleanOldRequests(requests, t) ==
    SelectSeq(requests, LAMBDA req_time : KeepRequest(req_time, t))

\* sum(1 for req_time in recent_requests if req_time > cutoff)
CountAfter(requests, cutoff) ==
    Cardinality({i \in 1..Len(requests) : fromisoformat(requests[i]) > cutoff})

\* Variant: the minute window counted over one hour
minute_count_HourWindow(requests, t) == CountAfter(requests, t - Hour)

hourly_count(requests, t) == CountAfter(requests, t - Hour)
minute_count(requests, t) == CountAfter(requests, t - Minute)
daily_count(requests) == Len(requests)

\* Variant: the threshold test is exclusive
LimitReached_Exclusive(count, limit) == count > limit

\* One threshold test: the limit is reached
LimitReached(count, limit) == count >= limit

\* Variant: the thresholds are tested from the finest window to the coarsest
RejectedBy_FinestFirst(limits, requests, t) ==
    CASE LimitReached(minute_count(requests, t), limits.minute_limit) -> "minute"
      [] LimitReached(hourly_count(requests, t), limits.hourly_limit) -> "hourly"
      [] LimitReached(daily_count(requests), limits.daily_limit) -> "daily"
      [] OTHER -> "none"

\* The window that rejects the request, daily first, or "none"
RejectedBy(limits, requests, t) ==
    CASE LimitReached(daily_count(requests), limits.daily_limit) -> "daily"
      [] LimitReached(hourly_count(requests, t), limits.hourly_limit) -> "hourly"
      [] LimitReached(minute_count(requests, t), limits.minute_limit) -> "minute"
      [] OTHER -> "none"

\* The warnings the call logs: the one of the branch that rejects the request
Warnings(verdict) ==
    CASE verdict = "daily" -> <<"Daily rate limit exceeded">>
      [] verdict = "hourly" -> <<"Hourly rate limit exceeded">>
      [] verdict = "minute" -> <<"Minute rate limit exceeded">>
      [] OTHER -> <<>>

\* Variant: the request is recorded at the front of the ledger
RecordRequest_AtFront(requests, t) == <<isoformat(t)>> \o requests

\* The ledger after a request is recorded
RecordRequest(requests, t) == Append(requests, isoformat(t))

(***************************************************************************)
(* Values of a configuration record.  A record is a function from its keys *)
(* to values; a string value is [str |-> s], the string of an instant is   *)
(* [iso |-> ...], an encrypted blob is a record of three texts.            *)
(***************************************************************************)
Str(s) == [str |-> s]
IsStr(v) == DOMAIN v = {"str"}

\* Python's None
None == [none |-> TRUE]

\* Python truthiness of a value: an empty string and None are false
Truthy(v) == IF IsStr(v) THEN v.str # "" ELSE v # None

Put(record, key, value) ==
    [k \in DOMAIN record \cup {key} |-> IF k = key THEN value ELSE record[k]]
Del(record, key) == [k \in DOMAIN record \ {key} |-> record[k]]
EmptyRecord == [k \in {} |-> Str("")]

\* A JSON array, which json.load() returns as a list and not as a dict
JsonList(items) == [json_list |-> items]
IsDict(v) == "json_list" \notin DOMAIN v

(***************************************************************************)
(* Text and byte conversions                                               *)
(***************************************************************************)
\* Strings that str.encode() rejects: a lone surrogate is not valid UTF-8
Unencodable == {"sk-\\udc80"}

\* str.encode(): the UTF-8 bytes of a string, or UnicodeEncodeError
encode(s) == IF s \in Unencodable THEN Raised ELSE Returned([utf8 |-> s])

\* bytes.decode(): the string of UTF-8 bytes
decode(bytes) == bytes.utf8

\* base64.urlsafe_b64encode(): the canonical text of the bytes
urlsafe_b64encode(bytes) == [b64 |-> bytes, form |-> "canonical"]

\* base64.urlsafe_b64decode(): the bytes of a text.  A text with characters
\* outside the alphabet or with unused trailing bits set ("noncanonical")
\* still decodes to the same bytes; a text cut inside a group of four
\* ("bad_padding") raises binascii.Error.
urlsafe_b64decode(text) ==
    IF text.form = "bad_padding" THEN Raised ELSE Returned(text.b64)

(***************************************************************************)
(* Key derivation and the cipher                                           *)
(***************************************************************************)
\* os.urandom(16): the n-th draw is a value no earlier draw returned
urandom(n) == n + 1

\* generate_key_from_password(password, salt) with the salt given:
\* PBKDF2-HMAC-SHA256 is a function of the password and the salt
generate_key_from_password(password, salt) ==
    [kdf |-> "pbkdf2_sha256", password |-> password, salt |-> salt]

\* Fernet(key).encrypt(data): a token authenticated under the key, with a
\* random initialisation vector
fernet_encrypt(key, data, iv) ==
    [key |-> key, iv |-> iv, msg |-> data, authentic |-> TRUE]

\* Variant: a cipher without authentication, which turns a token into some
\* bytes under any key
fernet_decrypt_Unauthenticated(key, token) ==
    IF token.authentic /\ token.key = key
    THEN Returned(token.msg)
    ELSE Returned([utf8 |-> "garbage"])

\* Fernet(key).decrypt(token): the data when the token's HMAC verifies under
\* the key, else InvalidToken
fernet_decrypt(key, token) ==
    IF token.authentic /\ token.key = key THEN Returned(token.msg) ELSE Raised

\* Variant: every call derives its key with the same, built-in salt
encrypt_sensitive_data_FixedSalt(data, password, n) ==
    LET salt == 0
        key == generate_key_from_password(password, salt)
        bytes == encode(data)
    IN  IF ~bytes.ok
        THEN [ok |-> FALSE, entropy |-> n + 1]
        ELSE [ok |-> TRUE,
              val |-> [encrypted_data |->
                           urlsafe_b64encode(fernet_encrypt(key, bytes.val, urandom(n + 1))),
                       salt |-> urlsafe_b64encode(salt),
                       encryption_method |-> "fernet_pbkdf2"],
              entropy |-> n + 2]

\* encrypt_sensitive_data(data, password), n values drawn so far: the blob (or
\* the exception re-raised) and the number of values drawn after the call
encrypt_sensitive_data(data, password, n) ==
    LET salt == urandom(n)
        key == generate_key_from_password(password, salt)
        bytes == encode(data)
    IN  IF ~bytes.ok
        THEN [ok |-> FALSE, entropy |-> n + 1]
        ELSE [ok |-> TRUE,
              val |-> [encrypted_data |->
                           urlsafe_b64encode(fernet_encrypt(key, bytes.val, urandom(n + 1))),
                       salt |-> urlsafe_b64encode(salt),
                       encryption_method |-> "fernet_pbkdf2"],
              entropy |-> n + 2]

\* Variant: the key is derived with a newly drawn salt, not the stored one
decrypt_sensitive_data_NewSalt(blob, password) ==
    LET encrypted_bytes == urlsafe_b64decode(blob.encrypted_data)
    IN  IF ~encrypted_bytes.ok
        THEN Raised
        ELSE LET key == generate_key_from_password(password, 0 - 1000)
                 decrypted_data == fernet_decrypt(key, encrypted_bytes.val)
             IN  IF decrypted_data.ok
                 THEN Returned(decode(decrypted_data.val))
                 ELSE Raised

\* decrypt_sensitive_data(encrypted_data, password): the string, or the
\* exception re-raised
decrypt_sensitive_data(blob, password) ==
    LET salt == urlsafe_b64decode(blob.salt)
        encrypted_bytes == urlsafe_b64decode(blob.encrypted_data)
    IN  IF ~salt.ok \/ ~encrypted_bytes.ok
        THEN Raised
        ELSE LET key == generate_key_from_password(password, salt.val)
                 decrypted_data == fernet_decrypt(key, encrypted_bytes.val)
             IN  IF decrypted_data.ok
                 THEN Returned(decode(decrypted_data.val))
                 ELSE Raised

(***************************************************************************)
(* The audit log                                                           *)
(***************************************************************************)
\* A value json.dumps() cannot serialise, such as a datetime object
PythonObject == [object |-> "datetime"]
Num(n) == [num |-> n]

\* json.dumps(event): every value of the details must be JSON-serialisable
Serialisable(details) == \A k \in DOMAIN details : details[k] # PythonObject
json_dumps(event) == IF Serialisable(event.details) THEN Returned(event) ELSE Raised

\* The outcomes of the write of a log record by the logging handler: written,
\* or failed, which the handler reports on stderr and does not raise
LogOutcomes == {"ok", "failed"}

\* log_security_event(event_type, details) at instant t: whether it raises,
\* and the events it adds to audit.log
log_security_event(event_type, details, t, write) ==
    LET event == [timestamp |-> [iso |-> isoformat(t)],
                  event_type |-> event_type,
                  details |-> details]
        text == json_dumps(event)
    IN  IF ~text.ok
        THEN [raised |-> TRUE, logged |-> <<>>]
        ELSE [raised |-> FALSE,
              logged |-> IF write = "ok" THEN <<text.val>> ELSE <<>>]

\* setup_secure_logging(): logging.basicConfig() opens audit.log unless the
\* root logger already has a handler; a failure of open() is not caught
setup_secure_logging(configured, open) ==
    [raised |-> ~configured /\ open # "ok"]

(***************************************************************************)
(* SecureConfigManager                                                     *)
(***************************************************************************)
sensitive_fields == <<"api_key", "password", "token">>
Sensitive == {sensitive_fields[i] : i \in 1..Len(sensitive_fields)}
EncryptedField(field) == field \o "_encrypted"

\* The loop of save_secure_config over sensitive_fields from the i-th on: each
\* field that is present and truthy is replaced by its blob, or left as it is
\* when its encryption raises
RECURSIVE EncryptFields(_, _, _, _)
EncryptFields(secure_config, master_password, i, n) ==
    IF i > Len(sensitive_fields)
    THEN [config |-> secure_config, entropy |-> n]
    ELSE LET field == sensitive_fields[i]
         IN  IF field \in DOMAIN secure_config /\ Truthy(secure_config[field])
             THEN LET encrypted_data ==
                          encrypt_sensitive_data(secure_config[field].str, master_password, n)
                  IN  IF encrypted_data.ok
                      THEN EncryptFields(
                               Del(Put(secure_config, EncryptedField(field), encrypted_data.val),
                                   field),
                               master_password, i + 1, encrypted_data.entropy)
                      ELSE EncryptFields(secure_config, master_password, i + 1,
                                         encrypted_data.entropy)
             ELSE EncryptFields(secure_config, master_password, i + 1, n)

\* Variant: the first field whose encryption raises aborts the loop, and the
\* record is dumped as it was given
SecureConfigToWrite_AbortOnFailure(config, master_password, n, t) ==
    LET done == EncryptFields(config, master_password, 1, n)
        failed == \E f \in Sensitive :
                      /\ f \in DOMAIN config /\ Truthy(config[f])
                      /\ ~encode(config[f].str).ok
    IN  [config |-> Put(IF failed THEN config ELSE done.config,
                        "encrypted_timestamp", [iso |-> isoformat(t)]),
         entropy |-> done.entropy]

\* The record save_secure_config dumps: the fields encrypted, then the timestamp
SecureConfigToWrite(config, master_password, n, t) ==
    LET done == EncryptFields(config, master_password, 1, n)
    IN  [config |-> Put(done.config, "encrypted_timestamp", [iso |-> isoformat(t)]),
         entropy |-> done.entropy]

\* Variant: the loop and the timestamp work on the caller's record itself
CallerRecordAfter_InPlace(config, secure_config) == secure_config

\* secure_config = config.copy(): every later statement of save_secure_config
\* writes the copy, so the caller's record is after the call what it was
CallerRecordAfter(config, secure_config) == config

\* The blobs a save_secure_config call got from encrypt_sensitive_data(), in
\* field order: the <field>_encrypted entries it put into the record
ProducedBy(config, secure_config) ==
    LET put(field) ==
            /\ EncryptedField(field) \in DOMAIN secure_config
            /\ field \notin DOMAIN secure_config
            /\ field \in DOMAIN config /\ Truthy(config[field])
        fields == SelectSeq(sensitive_fields, put)
    IN  [i \in 1..Len(fields) |-> secure_config[EncryptedField(fields[i])]]

\* len([f for f in sensitive_fields if f"{f}_encrypted" in secure_config])
fields_encrypted(secure_config) ==
    Cardinality({f \in Sensitive : EncryptedField(f) \in DOMAIN secure_config})

\* Variant: the audit event is emitted before the file is written
SaveResult_LogBeforeWrite(secure_config, outcome, t, write) ==
    LET log == log_security_event("config_encrypted",
                   [fields_encrypted |-> Num(fields_encrypted(secure_config))], t, write)
    IN  [raised |-> outcome # "ok" \/ log.raised, logged |-> log.logged]

\* The try block of save_secure_config: the dump, then the audit event; an
\* exception of either is logged and re-raised
SaveResult(secure_config, outcome, t, write) ==
    IF outcome # "ok"
    THEN [raised |-> TRUE, logged |-> <<>>]
    ELSE LET log == log_security_event("config_encrypted",
                        [fields_encrypted |-> Num(fields_encrypted(secure_config))], t, write)
         IN  [raised |-> log.raised, logged |-> log.logged]

\* The loop of load_secure_config over sensitive_fields from the i-th on: each
\* blob that decrypts is replaced by its plaintext, each other blob is kept
RECURSIVE DecryptFields(_, _, _)
DecryptFields(secure_config, master_password, i) ==
    IF i > Len(sensitive_fields)
    THEN secure_config
    ELSE LET field == sensitive_fields[i]
             encrypted_field == EncryptedField(field)
         IN  IF encrypted_field \in DOMAIN secure_config
             THEN LET decrypted_data ==
                          decrypt_sensitive_data(secure_config[encrypted_field], master_password)
                  IN  IF decrypted_data.ok
                      THEN DecryptFields(
                               Del(Put(secure_config, field, Str(decrypted_data.val)),
                                   encrypted_field),
                               master_password, i + 1)
                      ELSE DecryptFields(secure_config, master_password, i + 1)
             ELSE DecryptFields(secure_config, master_password, i + 1)

\* Variant: a blob that does not decrypt aborts the load, which returns {}
load_secure_config_FailFast(file, master_password) ==
    IF file.kind # "json"
    THEN EmptyRecord
    ELSE IF \E f \in Sensitive :
                /\ EncryptedField(f) \in DOMAIN file.data
                /\ ~decrypt_sensitive_data(file.data[EncryptedField(f)], master_password).ok
         THEN EmptyRecord
         ELSE DecryptFields(file.data, master_password, 1)

\* load_secure_config(master_password) once exists() has returned: {} when
\* there is no file, {} when open() or json.load() raises, else what the loop
\* leaves of the value parsed
load_secure_config(file, master_password) ==
    CASE file.kind = "missing" -> EmptyRecord
      [] file.kind = "corrupt" -> EmptyRecord
      [] file.kind = "unreadable" -> EmptyRecord
      [] file.kind = "json" -> DecryptFields(file.data, master_password, 1)

(***************************************************************************)
(* The callers' inputs                                                     *)
(***************************************************************************)
Passwords == {"pw1", "pw2"}

\* A blob left by an earlier save under the password "pw2"
OldBlob ==
    [encrypted_data |->
         urlsafe_b64encode(
             fernet_encrypt(generate_key_from_password("pw2", 0), [utf8 |-> "sk-old"], 0)),
     salt |-> urlsafe_b64encode(0),
     encryption_method |-> "fernet_pbkdf2"]

\* The values a caller gives each sensitive field ("-" : the key is absent)
FieldInputs ==
    [api_key |-> {"-", "", "sk-A", "sk-\\udc80"},
     password |-> {"-", "hunter2"},
     token |-> {"-", "tok-B", "sk-\\udc80"}]

\* Keys a record carries over from an earlier load: a blob that did not
\* decrypt, the timestamp of the save
CarriedOver ==
    {EmptyRecord,
     [api_key_encrypted |-> OldBlob],
     [encrypted_timestamp |-> [iso |-> isoformat(0)]]}

ConfigInputs ==
    {[k \in {"llm_type", "model"}
            \cup {f \in Sensitive : choice[f] # "-"}
            \cup DOMAIN extra |->
        CASE k = "llm_type" -> Str("openai")
          [] k = "model" -> Str("gpt-4")
          [] k \in Sensitive -> Str(choice[k])
          [] OTHER -> extra[k]] :
     choice \in {c \in [Sensitive -> UNION {FieldInputs[f] : f \in Sensitive}] :
                   \A f \in Sensitive : c[f] \in FieldInputs[f]},
     extra \in CarriedOver}

\* The instants the configuration is saved at
ConfigTimes == {t \in Times : t < Minute}

\* The outcomes of the dump in save_secure_config: written; open() fails and
\* the file stays as it was; open() truncated the file and the dump failed.
\* Both failures are logged and re-raised.
SaveOutcomes == {"ok", "open_failed", "dump_failed"}

\* The configuration store left alone: nothing saved, nothing to save
ConfigIdle ==
    /\ secure_file = MissingFile
    /\ entropy = 0
    /\ cfg_last = [op |-> "none"]
    /\ caller = [config |-> EmptyRecord, master_password |-> "pw1"]
    /\ saved = FALSE
    /\ damaged = FALSE
    /\ issued = <<>>

\* No configuration yet; the caller holds the record it is going to save
ConfigStart ==
    /\ secure_file = MissingFile
    /\ entropy = 0
    /\ cfg_last = [op |-> "none"]
    /\ caller \in [config : ConfigInputs, master_password : Passwords]
    /\ saved = FALSE
    /\ damaged = FALSE
    /\ issued = <<>>

\* Time passes between two operations on the configuration
ClockAdvance ==
    \E t \in ConfigTimes :
        /\ t > now
        /\ now' = t
        /\ UNCHANGED <<rl_vars, cfg_vars, val_vars, app_vars>>

\* save_secure_config(config, master_password), the whole call
SaveSecureConfig ==
    \E outcome \in SaveOutcomes, write \in LogOutcomes :
        LET out == SecureConfigToWrite(caller.config, caller.master_password, entropy, now)
            result == SaveResult(out.config, outcome, now, write)
        IN  /\ out.entropy <= MaxDraws
            /\ secure_file.kind \in {"unreadable", "no_access"} => outcome = "open_failed"
            /\ outcome # "ok" => write = "ok"     \* nothing is logged to the audit log
            /\ entropy' = out.entropy
            /\ secure_file' = CASE outcome = "ok" -> JsonFile(out.config)
                                [] outcome = "open_failed" -> secure_file
                                [] outcome = "dump_failed" -> CorruptFile
            /\ saved' = CASE outcome = "ok" -> TRUE
                          [] outcome = "open_failed" -> saved
                          [] outcome = "dump_failed" -> FALSE
            /\ damaged' = IF outcome = "open_failed" THEN damaged ELSE FALSE
            /\ cfg_last' = [op |-> "save", outcome |-> outcome,
                            raised |-> result.raised, logged |-> result.logged,
                            given |-> caller.config]
            /\ issued' = issued \o ProducedBy(caller.config, out.config)
            /\ caller' = [caller EXCEPT
                              !.config = CallerRecordAfter(caller.config, out.config)]
            /\ UNCHANGED <<now, rl_vars, val_vars, app_vars>>

\* load_secure_config(master_password), the whole call
LoadSecureConfig ==
    \E master_password \in Passwords :
        /\ cfg_last' = IF exists(secure_file).ok
                       THEN [op |-> "load", master_password |-> master_password,
                             ret |-> load_secure_config(secure_file, master_password),
                             raised |-> FALSE]
                       ELSE [op |-> "load", master_password |-> master_password,
                             ret |-> EmptyRecord,     \* nothing is returned
                             raised |-> TRUE]
        /\ UNCHANGED <<now, rl_vars, val_vars, app_vars, secure_file, entropy, caller, saved, damaged, issued>>

\* What can happen to one text of a stored blob: its bytes change (also when the
\* text is cut by whole groups), only its text changes, it is cut inside a group
DamageKinds == {"altered", "noncanonical", "bad_padding"}

\* The salt text of a blob after the damage
DamagedSalt(text, kind) ==
    IF kind = "altered" THEN [text EXCEPT !.b64 = 0 - text.b64 - 1]
    ELSE [text EXCEPT !.form = kind]

\* The ciphertext text of a blob after the damage
DamagedCiphertext(text, kind) ==
    IF kind = "altered" THEN [text EXCEPT !.b64 = [text.b64 EXCEPT !.authentic = FALSE]]
    ELSE [text EXCEPT !.form = kind]

\* secure_config.json is edited, or damaged on disk, between two operations
DamageBlob ==
    /\ secure_file.kind = "json"
    /\ ~damaged
    /\ \E field \in Sensitive, part \in {"salt", "encrypted_data"}, kind \in DamageKinds :
        LET key == EncryptedField(field)
        IN  /\ key \in DOMAIN secure_file.data
            /\ secure_file' =
                   JsonFile(Put(secure_file.data, key,
                       IF part = "salt"
                       THEN [secure_file.data[key] EXCEPT !.salt = DamagedSalt(@, kind)]
                       ELSE [secure_file.data[key] EXCEPT
                                 !.encrypted_data = DamagedCiphertext(@, kind)]))
            /\ damaged' = TRUE
            /\ cfg_last' = [op |-> "damage", field |-> field, part |-> part, kind |-> kind]
            /\ UNCHANGED <<now, rl_vars, val_vars, app_vars, entropy, caller, saved, issued>>

\* What secure_config.json can become without a save: a JSON file holding an
\* array, a file that may not be read, a file whose directory may not be searched
ForeignFiles == {JsonFile(JsonList(<<>>)), UnreadableFile, NoAccessFile}

\* Another program replaces secure_config.json, or access to it is lost
ForeignChange ==
    /\ cfg_last.op # "foreign"
    /\ \E file \in ForeignFiles :
        /\ secure_file # file
        /\ secure_file' = file
        /\ saved' = FALSE
        /\ damaged' = FALSE
        /\ cfg_last' = [op |-> "foreign"]
        /\ UNCHANGED <<now, rl_vars, val_vars, app_vars, entropy, caller, issued>>

(***************************************************************************)
(* Text.  A string handled character by character is the sequence of its   *)
(* characters.                                                             *)
(***************************************************************************)
LowerLetters == <<"a", "b", "c", "d", "e", "f", "g", "h", "i", "j", "k", "l", "m", "n", "o", "p", "q", "r", "s", "t", "u", "v", "w", "x", "y", "z">>
UpperLetters == <<"A", "B", "C", "D", "E", "F", "G", "H", "I", "J", "K", "L", "M", "N", "O", "P", "Q", "R", "S", "T", "U", "V", "W", "X", "Y", "Z">>
Letters == {LowerLetters[i] : i \in 1..26} \cup {UpperLetters[i] : i \in 1..26}
Digits == {"0", "1", "2", "3", "4", "5", "6", "7", "8", "9"}

\* str.lower() on one character
Fold(c) ==
    IF \E i \in 1..26 : UpperLetters[i] = c
    THEN LowerLetters[CHOOSE i \in 1..26 : UpperLetters[i] = c]
    ELSE c

\* str.lower()
lower(s) == [i \in 1..Len(s) |-> Fold(s[i])]

\* s * n for a string s of one character
Repeat(c, n) == [i \in 1..n |-> c]

\* s[:n] and s[-n:] for 0 < n <= len(s)
Head_(s, n) == SubSeq(s, 1, n)
Tail_(s, n) == SubSeq(s, Len(s) - n + 1, Len(s))

(***************************************************************************)
(* Regular expressions of the re module, as far as the patterns of the     *)
(* validators use them.  A pattern is a sequence of items: "^", a literal  *)
(* string, a character set with a repetition {min,max} or {min,}, "$".     *)
(***************************************************************************)
Start == [kind |-> "start", chars |-> <<>>, set |-> {}, neg |-> FALSE,
          min |-> 0, max |-> 0, open |-> FALSE]
End == [kind |-> "end", chars |-> <<>>, set |-> {}, neg |-> FALSE,
        min |-> 0, max |-> 0, open |-> FALSE]
Lit(chars) == [kind |-> "lit", chars |-> chars, set |-> {}, neg |-> FALSE,
               min |-> 0, max |-> 0, open |-> FALSE]
\* [set]{min,max}
Set(set, min, max) == [kind |-> "set", chars |-> <<>>, set |-> set, neg |-> FALSE,
                       min |-> min, max |-> max, open |-> FALSE]
\* [set]{min,}, and [set]* for min = 0
SetAtLeast(set, min) == [kind |-> "set", chars |-> <<>>, set |-> set, neg |-> FALSE,
                         min |-> min, max |-> 0, open |-> TRUE]
\* [^set]*
NotSetStar(set) == [kind |-> "set", chars |-> <<>>, set |-> set, neg |-> TRUE,
                    min |-> 0, max |-> 0, open |-> TRUE]

\* The character U+0060 (grave accent), which a TLA+ string cannot hold
Backtick == "U+0060"

\* [a-zA-Z0-9] and \s
Alnum == Letters \cup Digits
Whitespace == {" ", "\t", "\n", "\r", "\f"}

\* One character of the pattern against one of the string
SameChar(p, c, ignorecase) ==
    IF ignorecase THEN Fold(p) = Fold(c) ELSE p = c

\* One character of the string against a character set
InSet(c, item, ignorecase) ==
    LET in == IF ignorecase
              THEN \E p \in item.set : Fold(p) = Fold(c)
              ELSE c \in item.set
    IN  IF item.neg THEN ~in ELSE in

\* The number of characters of s from the i-th on that are in the set
RECURSIVE RunLength(_, _, _, _)
RunLength(s, i, item, ignorecase) ==
    IF i > Len(s) \/ ~InSet(s[i], item, ignorecase)
    THEN 0
    ELSE 1 + RunLength(s, i + 1, item, ignorecase)

\* The items of the pattern from the k-th on match s from its i-th character on
RECURSIVE MatchAt(_, _, _, _, _)
MatchAt(pattern, k, s, i, ignorecase) ==
    IF k > Len(pattern)
    THEN TRUE
    ELSE LET item == pattern[k]
         IN  CASE item.kind = "start" ->
                    /\ i = 1
                    /\ MatchAt(pattern, k + 1, s, i, ignorecase)
               [] item.kind = "end" ->
                    \* "$" matches at the end and before a newline that ends the string
                    /\ \/ i = Len(s) + 1
                       \/ i = Len(s) /\ s[i] = "\n"
                    /\ MatchAt(pattern, k + 1, s, i, ignorecase)
               [] item.kind = "lit" ->
                    /\ i + Len(item.chars) - 1 <= Len(s)
                    /\ \A j \in 1..Len(item.chars) :
                          SameChar(item.chars[j], s[i + j - 1], ignorecase)
                    /\ MatchAt(pattern, k + 1, s, i + Len(item.chars), ignorecase)
               [] item.kind = "set" ->
                    LET run == RunLength(s, i, item, ignorecase)
                        most == IF item.open \/ run < item.max THEN run ELSE item.max
                    IN  \E n \in item.min..most :
                            MatchAt(pattern, k + 1, s, i + n, ignorecase)

\* bool(re.match(pattern, s))
match(pattern, s) == MatchAt(pattern, 1, s, 1, FALSE)

\* Variant: the search compares letters exactly
search_CaseSensitive(pattern, s, ignorecase) ==
    \E i \in 1..(Len(s) + 1) : MatchAt(pattern, 1, s, i, FALSE)

\* bool(re.search(pattern, s, flags))
search(pattern, s, ignorecase) ==
    \E i \in 1..(Len(s) + 1) : MatchAt(pattern, 1, s, i, ignorecase)

(***************************************************************************)
(* The validators of SecurityManager                                       *)
(***************************************************************************)
\* The patterns of validate_api_key_format, by provider
patterns(provider) ==
    CASE provider = <<"o", "p", "e", "n", "a", "i">> ->
            <<Start, Lit(<<"s", "k", "-">>), SetAtLeast(Alnum, 48), End>>
      [] provider = <<"a", "n", "t", "h", "r", "o", "p", "i", "c">> ->
            <<Start, Lit(<<"s", "k", "-", "a", "n", "t", "-">>), SetAtLeast(Alnum \cup {"-"}, 95), End>>
      [] provider = <<"g", "r", "o", "q">> ->
            <<Start, Lit(<<"g", "s", "k", "_">>), Set(Alnum, 52, 52), End>>
      [] provider = <<"o", "p", "e", "n", "r", "o", "u", "t", "e", "r">> ->
            <<Start, Lit(<<"s", "k", "-", "o", "r", "-", "v", "1", "-">>), Set(Alnum, 64, 64), End>>
      [] OTHER -> <<>>      \* patterns.get() returns None

\* str.isalnum() for ASCII text: not empty, and letters and digits only
isalnum(s) == s # <<>> /\ \A i \in 1..Len(s) : s[i] \in Alnum

\* s.replace(c, "")
Remove(s, c) == SelectSeq(s, LAMBDA x : x # c)

validate_api_key_format(api_key, provider) ==
    LET pattern == patterns(lower(provider))
    IN  IF pattern = <<>>
        THEN Len(api_key) > 10 /\ isalnum(Remove(Remove(api_key, "-"), "_"))
        ELSE match(pattern, api_key)

\* Variant: a key of eight characters is shown in full
mask_api_key_UpToSeven(api_key) ==
    IF Len(api_key) < 8
    THEN Repeat("*", Len(api_key))
    ELSE Head_(api_key, 4) \o Repeat("*", Len(api_key) - 8) \o Tail_(api_key, 4)

mask_api_key(api_key) ==
    IF Len(api_key) <= 8
    THEN Repeat("*", Len(api_key))
    ELSE Head_(api_key, 4) \o Repeat("*", Len(api_key) - 8) \o Tail_(api_key, 4)

dangerous_patterns ==
    << <<Set({";", "&", "|", Backtick}, 1, 1)>>,
       <<Lit(<<"$", "(">>)>>,
       <<Lit(<<Backtick>>), NotSetStar({Backtick}), Lit(<<Backtick>>)>>,
       <<Lit(<<"e", "v", "a", "l">>), SetAtLeast(Whitespace, 0), Lit(<<"(">>)>>,
       <<Lit(<<"e", "x", "e", "c">>), SetAtLeast(Whitespace, 0), Lit(<<"(">>)>>,
       <<Lit(<<"s", "u", "b", "p", "r", "o", "c", "e", "s", "s">>)>>,
       <<Lit(<<"o", "s", ".", "s", "y", "s", "t", "e", "m">>)>>,
       <<Lit(<<"s", "h", "e", "l", "l", "=", "T", "r", "u", "e">>)>> >>

validate_input_safety(user_input) ==
    ~\E k \in 1..Len(dangerous_patterns) : search(dangerous_patterns[k], user_input, TRUE)

\* The characters sanitize_filename replaces, those it strips, the length it keeps
MaxFilenameLength == 255
ReservedChars == {"<", ">", ":", "\"", "/", "\\", "|", "?", "*"}
StripChars == {".", " "}

\* re.sub(): every reserved character becomes an underscore
ReplaceReserved(filename) ==
    [i \in 1..Len(filename) |-> IF filename[i] \in ReservedChars THEN "_" ELSE filename[i]]

\* s.strip(chars)
strip(s, chars) ==
    LET kept == {i \in 1..Len(s) : s[i] \notin chars}
    IN  IF kept = {}
        THEN <<>>
        ELSE SubSeq(s, CHOOSE i \in kept : \A j \in kept : i <= j,
                       CHOOSE i \in kept : \A j \in kept : i >= j)

sanitize_filename(filename) ==
    LET sanitized == strip(ReplaceReserved(filename), StripChars)
    IN  SubSeq(sanitized, 1, IF Len(sanitized) < MaxFilenameLength
                             THEN Len(sanitized) ELSE MaxFilenameLength)

\* verify_config_integrity(config_data): the keys it requires, the types it knows
required_fields == <<"llm_type", "model">>
valid_llm_types == {"ollama", "lmstudio", "openai", "anthropic", "groq", "openrouter"}

\* Variant: only llm_type is required
verify_config_integrity_ModelOptional(config_data) ==
    [ret |-> /\ "llm_type" \in DOMAIN config_data
             /\ IsStr(config_data["llm_type"])
             /\ config_data["llm_type"].str \in valid_llm_types,
     config_data |-> config_data]

\* verify_config_integrity(config_data): the value returned, and the record as
\* the call leaves it; the record is read and never written
verify_config_integrity(config_data) ==
    [ret |-> IF \E i \in 1..Len(required_fields) :
                    required_fields[i] \notin DOMAIN config_data
             THEN FALSE
             ELSE /\ IsStr(config_data["llm_type"])
                  /\ config_data["llm_type"].str \in valid_llm_types,
     config_data |-> config_data]

(***************************************************************************)
(* python security_utils.py --validate                                     *)
(*                                                                         *)
(* The environment of the process: whether the cryptography package can be *)
(* imported, the configuration directory (missing, private, or open to     *)
(* group and others), whether audit.log can be opened, rate_limits.json.   *)
(***************************************************************************)
\* The imports at the top of the module: they raise without the package
ModuleImports(env) == IF env.crypto THEN Returned(TRUE) ELSE Raised

\* SecurityManager(config_dir): setup_secure_logging() opens audit.log, which
\* fails in a missing directory; load_rate_limits() reads rate_limits.json.
\* Neither exception is caught.
SecurityManagerRaises(env) ==
    \/ setup_secure_logging(FALSE,
           IF env.config_dir = "missing" THEN "open_failed" ELSE env.audit_open).raised
    \/ LoadRateLimitsRaises(env.rate_file)

\* What the process printed and how it ended
Crashed == [exit |-> 1, traceback |-> TRUE, summary |-> FALSE, issues |-> {}, warnings |-> {}]
Summary(issues, warnings) ==
    [exit |-> IF issues = {} THEN 0 ELSE 1, traceback |-> FALSE, summary |-> TRUE,
     issues |-> issues, warnings |-> warnings]

\* validate_security_installation() and the sys.exit() of its caller
validate_security_installation(env) ==
    IF SecurityManagerRaises(env)
    THEN Crashed
    ELSE LET dir_exists == env.config_dir # "missing"
             audit_exists == dir_exists        \* the constructor created it
             issues ==
                 (IF ~dir_exists THEN {"Configuration directory does not exist"} ELSE {})
                 \cup (IF ~env.crypto THEN {"Cryptography library not installed"} ELSE {})
             warnings ==
                 (IF dir_exists /\ env.config_dir = "open"
                  THEN {"Configuration directory permissions too open"} ELSE {})
                 \cup (IF ~audit_exists THEN {"Audit log file does not exist"} ELSE {})
                 \cup (IF ~exists(env.rate_file).val
                       THEN {"Rate limits file does not exist"} ELSE {})
         IN  Summary(issues, warnings)

\* The process started with --validate: the imports, then the validation
validate_main(env) ==
    IF ~ModuleImports(env).ok THEN Crashed ELSE validate_security_installation(env)

(***************************************************************************)
(* The callers' inputs to the validators and to the audit log              *)
(***************************************************************************)
\* The pieces the texts given to validate_input_safety are made of
Pieces ==
    {<<";">>, <<Backtick>>, <<"$">>, <<"(">>, <<" ">>,
     <<"e", "v", "a", "l">>, <<"E", "X", "E", "C">>, <<"S", "u", "b", "P", "r", "o", "c", "e", "s", "s">>, <<"o", "s">>, <<".">>, <<"s", "y", "s", "t", "e", "m">>, <<"s", "h", "e", "l", "l", "=">>, <<"T", "R", "U", "E">>}

\* The texts made of at most n pieces
RECURSIVE Texts(_)
Texts(n) ==
    IF n = 0
    THEN {<<>>}
    ELSE LET shorter == Texts(n - 1)
         IN  shorter \cup {t \o p : t \in shorter, p \in Pieces}

\* The texts made of pieces, a harmless word, each other command separator
SafetyInputs == Texts(MaxPieces) \cup {<<"h", "i">>, <<"&">>, <<"|">>}

\* Keys of every length up to MaxMaskLen
MaskInputs == UNION {[1..n -> {"k", "*"}] : n \in 0..MaxMaskLen}

\* File names: dots and spaces in front, a body, a tail of dots, spaces,
\* separators and letters; each reserved character alone
Tails == UNION {[1..n -> {".", " ", "/", "b"}] : n \in 0..MaxTail}
FilenameInputs ==
    {lead \o Repeat("a", n) \o tail :
        lead \in {<<>>, <<".">>, <<" ">>},
        n \in {0, 1, MaxFilenameLength - 1, MaxFilenameLength},
        tail \in Tails}
    \cup {<<c>> : c \in ReservedChars}

\* API keys: a prefix, a body of letters with one other character in it, of a
\* length around those the patterns ask for, and what may follow the body
Providers == {<<"o", "p", "e", "n", "a", "i">>, <<"O", "p", "e", "n", "A", "I">>, <<"a", "n", "t", "h", "r", "o", "p", "i", "c">>, <<"g", "r", "o", "q">>, <<"o", "p", "e", "n", "r", "o", "u", "t", "e", "r">>, <<"m", "i", "s", "t", "r", "a", "l">>}
KeyPrefixes == {<<>>, <<"s", "k", "-">>, <<"s", "k", "-", "a", "n", "t", "-">>, <<"g", "s", "k", "_">>, <<"s", "k", "-", "o", "r", "-", "v", "1", "-">>}
BodyLengths == {m + d : m \in {11, 48, 52, 64, 95}, d \in (0 - MaxDelta)..MaxDelta}
KeyBody(n, c) == [i \in 1..n |-> IF i = 2 THEN c ELSE "a"]
KeyInputs ==
    {prefix \o KeyBody(n, c) \o tail :
        prefix \in KeyPrefixes,
        n \in BodyLengths,
        c \in {"a", "Z", "7", "_", "-"},
        tail \in {<<>>, <<"\n">>, <<"!">>}}

\* The details callers give an audit event: a count, a datetime object
EventDetails == {[attempts |-> Num(1)], [when |-> PythonObject]}

\* The records given to verify_config_integrity: any of the keys, a type the
\* function knows or another value
LlmTypeInputs ==
    {Str(t) : t \in valid_llm_types \cup {"mistral", "OpenAI", ""}} \cup {Num(1)}
IntegrityInputs ==
    {[k \in keys |-> CASE k = "llm_type" -> t
                       [] k = "model" -> m
                       [] OTHER -> Str("sk-A")] :
        keys \in SUBSET {"llm_type", "model", "api_key"},
        t \in LlmTypeInputs,
        m \in {Str("gpt-4"), Str("")}}

\* The environments --validate runs in; a missing directory holds no file
Environments ==
    {env \in [crypto : BOOLEAN,
              config_dir : {"missing", "private", "open"},
              audit_open : {"ok", "open_failed"},
              rate_file : {MissingFile, CorruptFile, UnreadableFile,
                           JsonFile(DefaultRateLimits)}] :
        env.config_dir = "missing" =>
            env.rate_file = MissingFile /\ env.audit_open = "open_failed"}

\* The calls of the validators and of the audit log
Calls ==
    {[fn |-> "validate_input_safety", user_input |-> t] : t \in SafetyInputs}
    \cup {[fn |-> "validate_api_key_format", api_key |-> k, provider |-> p] :
             k \in KeyInputs, p \in Providers}
    \cup {[fn |-> "mask_api_key", api_key |-> k] : k \in MaskInputs}
    \cup {[fn |-> "sanitize_filename", filename |-> f] : f \in FilenameInputs}
    \cup {[fn |-> "log_security_event", details |-> d, write |-> w] :
             d \in EventDetails, w \in LogOutcomes}
    \cup {[fn |-> "setup_secure_logging", configured |-> c, open |-> o] :
             c \in BOOLEAN, o \in {"ok", "open_failed"}}
    \cup {[fn |-> "verify_config_integrity", config_data |-> c] : c \in IntegrityInputs}
    \cup {[fn |-> "validate", env |-> env] : env \in Environments}

\* What every call of a validator leaves alone
ReturnTo(result) ==
    /\ ~res.done
    /\ res' = result
    /\ UNCHANGED <<now, rl_vars, cfg_vars, app_vars, arg>>

ValidateInputSafety ==
    /\ arg.fn = "validate_input_safety"
    /\ ReturnTo([done |-> TRUE, ret |-> validate_input_safety(arg.user_input)])

ValidateApiKeyFormat ==
    /\ arg.fn = "validate_api_key_format"
    /\ ReturnTo([done |-> TRUE, ret |-> validate_api_key_format(arg.api_key, arg.provider)])

MaskApiKey ==
    /\ arg.fn = "mask_api_key"
    /\ ReturnTo([done |-> TRUE, ret |-> mask_api_key(arg.api_key)])

SanitizeFilename ==
    /\ arg.fn = "sanitize_filename"
    /\ ReturnTo([done |-> TRUE, ret |-> sanitize_filename(arg.filename)])

\* log_security_event(event_type, details), the whole call
LogSecurityEvent ==
    /\ arg.fn = "log_security_event"
    /\ LET log == log_security_event("login_failed", arg.details, now, arg.write)
       IN  ReturnTo([done |-> TRUE, raised |-> log.raised, logged |-> log.logged])

\* setup_secure_logging(), the whole call, in a process whose root logger is
\* configured already or not, with an audit.log that can be opened or not
SetupSecureLogging ==
    /\ arg.fn = "setup_secure_logging"
    /\ ReturnTo([done |-> TRUE,
                 raised |-> setup_secure_logging(arg.configured, arg.open).raised])

\* verify_config_integrity(config_data), the whole call
VerifyConfigIntegrity ==
    /\ arg.fn = "verify_config_integrity"
    /\ LET call == verify_config_integrity(arg.config_data)
       IN  ReturnTo([done |-> TRUE, raised |-> FALSE, ret |-> call.ret,
                     config_data |-> call.config_data])

\* python security_utils.py --validate, the whole run
Validate ==
    /\ arg.fn = "validate"
    /\ LET run == validate_main(arg.env)
       IN  ReturnTo([done |-> TRUE, exit |-> run.exit, traceback |-> run.traceback,
                     summary |-> run.summary, issues |-> run.issues,
                     warnings |-> run.warnings])

\* No validator is being called
NoArg == [fn |-> "none"]
NoResult == [done |-> FALSE]
ValidatorIdle ==
    /\ arg = NoArg
    /\ res = NoResult

(***************************************************************************)
(* The application: config.json, its backups, language_config.json         *)
(***************************************************************************)
\* No language was forced and none was reset
NothingForced == [lang |-> "", reset |-> "none"]

\* No program of the application has run, and none is going to
AppIdle ==
    /\ config_file = MissingFile
    /\ backup_files = EmptyRecord
    /\ language_file = MissingFile
    /\ forced = NothingForced
    /\ app_last = [op |-> "none"]

(***************************************************************************)
(* The launcher (ai_chat.py)                                               *)
(***************************************************************************)
\* save_language_preference(lang): the file after the call; an OSError of
\* open() or of the dump is printed and swallowed
save_language_preference(lang, file, outcome) ==
    CASE outcome = "ok" -> JsonFile([preferred_language |-> Str(lang)])
      [] outcome = "open_failed" -> file
      [] outcome = "dump_failed" -> CorruptFile

\* Variant: the saved preference is never read
load_language_preference_Ignored(file) == None

\* load_language_preference(): the preferred_language of the file, None when
\* there is no file, when it cannot be read and when it is not valid JSON
load_language_preference(file) ==
    IF file.kind = "json" /\ "preferred_language" \in DOMAIN file.data
    THEN file.data["preferred_language"]
    ELSE None

\* get_system_language(): the environment is given by what LANG starts with
\* and by what the default locale starts with
get_system_language(env) ==
    CASE env.LANG = "fr" -> "fr"
      [] env.LANG = "en" -> "en"
      [] env.locale = "fr" -> "fr"
      [] env.locale = "en" -> "en"
      [] OTHER -> "en"

\* The chat programs next to the launcher
Scripts == {"ai_chat_fr.py", "ai_chat_en.py"}

\* The script of a language, or the other one when it is not installed
script_path(lang, installed) ==
    IF lang = "fr"
    THEN IF "ai_chat_fr.py" \in installed THEN "ai_chat_fr.py" ELSE "ai_chat_en.py"
    ELSE IF "ai_chat_en.py" \in installed THEN "ai_chat_en.py" ELSE "ai_chat_fr.py"

\* The command line of the chat program
cmd(script, args) ==
    <<"python", script>>
    \o (IF args.config THEN <<"--config">> ELSE <<>>)
    \o (IF args.secure_mode THEN <<"--secure-mode">> ELSE <<>>)
    \o args.unknown_args

\* The language of a run and the preference file it leaves: the choice of
\* --select-lang, else --lang, else the saved preference, else the detection
ChooseLanguage(args, choice, file, env, write) ==
    IF args.select_lang
    THEN LET lang == IF choice = "1" THEN "en" ELSE "fr"
         IN  [lang |-> lang, file |-> save_language_preference(lang, file, write)]
    ELSE IF Truthy(args.lang)
         THEN [lang |-> args.lang.str,
               file |-> save_language_preference(args.lang.str, file, write)]
         ELSE LET saved_lang == load_language_preference(file)
              IN  [lang |-> IF Truthy(saved_lang) THEN saved_lang.str
                            ELSE get_system_language(env),
                   file |-> file]

\* main() of the launcher up to subprocess.run(): the preference file it
\* leaves, the language, and the command it runs if it runs one
launcher_main(args, choice, file, env, write, unlink, installed) ==
    IF args.reset_lang
    THEN [language_file |-> IF exists(file).val /\ unlink = "ok" THEN MissingFile ELSE file,
          lang |-> "", launched |-> FALSE, cmd |-> <<>>]
    ELSE LET chosen == ChooseLanguage(args, choice, file, env, write)
             script == script_path(chosen.lang, installed)
         IN  IF script \notin installed
             THEN [language_file |-> chosen.file, lang |-> chosen.lang,
                   launched |-> FALSE, cmd |-> <<>>]       \* sys.exit(1)
             ELSE [language_file |-> chosen.file, lang |-> chosen.lang,
                   launched |-> TRUE, cmd |-> cmd(script, args)]

(***************************************************************************)
(* The chat program (ai_chat_en.py; main() of ai_chat_fr.py is the same)   *)
(***************************************************************************)
\* parser.parse_args(): the parser knows --config only; any other argument
\* ends the process with status 2
parse_args(argv) ==
    IF \A i \in 1..Len(argv) : argv[i] = "--config"
    THEN Returned([config |-> Len(argv) > 0])
    ELSE Raised

\* The file AITerminalChat keeps its configuration, credentials included, in
credentials_file == "config.json"

\* The start of the chat program run by the launcher: refused by the parser,
\* or started on its configuration file
chat_start(command) ==
    LET args == parse_args(SubSeq(command, 3, Len(command)))
    IN  IF args.ok
        THEN [accepted |-> TRUE, credentials |-> credentials_file]
        ELSE [accepted |-> FALSE, credentials |-> "none"]

\* dict.update()
Update(record, other) ==
    [k \in DOMAIN record \cup DOMAIN other |->
        IF k \in DOMAIN other THEN other[k] ELSE record[k]]

\* The LLM types of the wizard, by the choice typed
llm_types ==
    [c \in {"1", "2", "3", "4", "5", "6"} |->
        CASE c = "1" -> [name |-> "Ollama (Local)", type |-> "ollama"]
          [] c = "2" -> [name |-> "LM Studio (Local)", type |-> "lmstudio"]
          [] c = "3" -> [name |-> "OpenAI API", type |-> "openai"]
          [] c = "4" -> [name |-> "OpenRouter API", type |-> "openrouter"]
          [] c = "5" -> [name |-> "Anthropic API", type |-> "anthropic"]
          [] c = "6" -> [name |-> "Groq API", type |-> "groq"]]

\* setup_ollama(): without the ollama program it returns an error entry
setup_ollama(answers) ==
    IF ~answers.ollama_installed
    THEN [error |-> Str("Ollama not found")]
    ELSE [model |-> Str(answers.model), api_url |-> Str("http://localhost:11434"),
          api_key |-> None]

\* setup_lmstudio(), setup_openai(), setup_openrouter(), setup_anthropic(),
\* setup_groq()
setup_provider(type, answers) ==
    CASE type = "ollama" -> setup_ollama(answers)
      [] type = "lmstudio" ->
            [model |-> Str(answers.model), api_url |-> Str("http://localhost:1234"),
             api_key |-> None]
      [] type = "openai" ->
            [model |-> Str(answers.model), api_url |-> Str("https://api.openai.com/v1"),
             api_key |-> Str(answers.api_key)]
      [] type = "openrouter" ->
            [model |-> Str(answers.model), api_url |-> Str("https://openrouter.ai/api/v1"),
             api_key |-> Str(answers.api_key)]
      [] type = "anthropic" ->
            [model |-> Str(answers.model), api_url |-> Str("https://api.anthropic.com/v1"),
             api_key |-> Str(answers.api_key)]
      [] type = "groq" ->
            [model |-> Str(answers.model), api_url |-> Str("https://api.groq.com/openai/v1"),
             api_key |-> Str(answers.api_key)]

\* setup_initial_config(): the configuration the wizard builds
setup_initial_config(answers) ==
    LET selected_llm == llm_types[answers.choice]
    IN  Update([llm_type |-> Str(selected_llm.type), llm_name |-> Str(selected_llm.name)],
               setup_provider(selected_llm.type, answers))

\* start_chat() reads config['llm_name'] and config['model'] before its loop
start_chat(config) ==
    IF IsDict(config) /\ {"llm_name", "model"} \subseteq DOMAIN config
    THEN Returned(TRUE)
    ELSE Raised

\* main() of the chat program: the arguments, the configuration loaded or
\* built by the wizard (a file that does not parse is renamed first) and
\* written, again with --config, then the session
chat_main(argv, file, answers, write) ==
    LET args == parse_args(argv)
        kept == IF file.kind = "corrupt" THEN MissingFile ELSE file
        wizard == setup_initial_config(answers)
    IN  IF ~args.ok
        THEN [exit |-> 2, session |-> FALSE, wizard |-> None, config_file |-> file]
        ELSE IF file.kind = "json" /\ ~args.val.config
        THEN [exit |-> IF start_chat(file.data).ok THEN 0 ELSE 1,
              session |-> start_chat(file.data).ok,
              wizard |-> None, config_file |-> file]
        ELSE CASE write = "ok" ->
                      [exit |-> IF start_chat(wizard).ok THEN 0 ELSE 1,
                       session |-> start_chat(wizard).ok,
                       wizard |-> wizard, config_file |-> JsonFile(wizard)]
               [] write = "open_failed" ->
                      [exit |-> 1, session |-> FALSE, wizard |-> None, config_file |-> kept]
               [] write = "dump_failed" ->
                      [exit |-> 1, session |-> FALSE, wizard |-> None,
                       config_file |-> CorruptFile]

(***************************************************************************)
(* The migration (config_migration.py)                                     *)
(***************************************************************************)
\* Variant: api_url is added and base_url is kept
RenameBaseUrl_KeepsOld(config) ==
    IF "base_url" \in DOMAIN config
    THEN Put(config, "api_url", config["base_url"])
    ELSE config

\* base_url is renamed api_url
RenameBaseUrl(config) ==
    IF "base_url" \in DOMAIN config
    THEN Del(Put(config, "api_url", config["base_url"]), "base_url")
    ELSE config

\* A missing llm_type becomes openrouter
AddLlmType(config) ==
    IF "llm_type" \notin DOMAIN config
    THEN Put(config, "llm_type", Str("openrouter"))
    ELSE config

\* migrate_config() at the given second: the value returned and the files it
\* leaves.  Every exception is caught and makes it return false: that of a
\* file that does not parse, that of a JSON array (which has no keys to
\* assign), that of a write.
migrate_config(file, backups, seconds, backup_write, config_write) ==
    LET Left(ret, f, b) == [ret |-> ret, config_file |-> f, backup_files |-> b]
    IN  IF ~exists(file).val THEN Left(FALSE, file, backups)
        ELSE IF file.kind # "json" THEN Left(FALSE, file, backups)
        ELSE IF ~IsDict(file.data) THEN Left(FALSE, file, backups)
        ELSE LET renamed == RenameBaseUrl(file.data)
                 config == AddLlmType(renamed)
                 changes_made == \/ "base_url" \in DOMAIN file.data
                                 \/ "llm_type" \notin DOMAIN renamed
                 backup == Put(backups, seconds, JsonFile(config))
             IN  IF ~changes_made THEN Left(TRUE, file, backups)
                 ELSE CASE backup_write = "open_failed" -> Left(FALSE, file, backups)
                        [] backup_write = "dump_failed" ->
                               Left(FALSE, file, Put(backups, seconds, CorruptFile))
                        [] config_write = "ok" -> Left(TRUE, JsonFile(config), backup)
                        [] config_write = "open_failed" -> Left(FALSE, file, backup)
                        [] config_write = "dump_failed" -> Left(FALSE, CorruptFile, backup)

(***************************************************************************)
(* The rate limiter as a state machine                                     *)
(***************************************************************************)
NoCall == [op |-> "none"]

RateInit ==
    /\ now = 0
    /\ rate_file \in {MissingFile} \cup {JsonFile(r) : r \in ConfiguredRateLimits}
    /\ rate_limits = load_rate_limits(rate_file)
    /\ rl_last = [op |-> "init", raised |-> FALSE]
    /\ admitted = <<>>
    /\ writeFailed = FALSE
    /\ ConfigIdle
    /\ ValidatorIdle
    /\ AppIdle

\* The construction of the SecurityManager raised: the process has no limiter
ConstructionFailed == rl_last.op = "init" /\ rl_last.raised

\* Time passes between two operations: the clock never runs backwards
Tick ==
    \E t \in Times :
        /\ t > now
        /\ now' = t
        /\ rl_last' = IF ConstructionFailed THEN rl_last ELSE NoCall
        /\ UNCHANGED <<rate_limits, rate_file, admitted, writeFailed>>
        /\ UNCHANGED <<cfg_vars, val_vars, app_vars>>

\* SecurityManager.__init__: a new process loads the ledger from the file
NewProcess ==
    /\ rl_last.op # "init"
    /\ IF LoadRateLimitsRaises(rate_file)
       THEN /\ rl_last' = [op |-> "init", raised |-> TRUE]
            /\ UNCHANGED rate_limits        \* no object is constructed
       ELSE /\ rl_last' = [op |-> "init", raised |-> FALSE]
            /\ rate_limits' = load_rate_limits(rate_file)
    /\ UNCHANGED <<now, rate_file, admitted, writeFailed>>
    /\ UNCHANGED <<cfg_vars, val_vars, app_vars>>

\* The permission to open rate_limits.json is lost; the model lets this happen
\* before the first request is admitted
AccessLost ==
    /\ rate_file.kind # "unreadable"
    /\ ~ConstructionFailed
    /\ admitted = <<>>
    /\ rate_file' = UnreadableFile
    /\ rl_last' = NoCall
    /\ UNCHANGED <<now, rate_limits, admitted, writeFailed>>
    /\ UNCHANGED <<cfg_vars, val_vars, app_vars>>

\* Variant: the request is recorded before the limits are checked
LedgerAfter_AlwaysRecorded(cleaned, t, verdict) == RecordRequest(cleaned, t)

\* The ledger the call leaves in memory: the request is recorded only when no
\* window rejected it
LedgerAfter(cleaned, t, verdict) ==
    IF verdict = "none" THEN RecordRequest(cleaned, t) ELSE cleaned

\* check_rate_limit(), the whole call
CheckRateLimit ==
    /\ Len(admitted) < MaxAdmitted
    /\ ~ConstructionFailed
    /\ \E outcome \in WriteOutcomes :
        LET cleaned == CleanOldRequests(rate_limits.requests, now)
            verdict == RejectedBy(rate_limits, cleaned, now)
            after == [rate_limits EXCEPT !.requests = LedgerAfter(cleaned, now, verdict)]
            ret == (verdict = "none")
        IN  /\ ~ret => outcome = "ok"     \* a rejected call writes nothing
            /\ (ret /\ rate_file.kind = "unreadable") => outcome = "open_failed"
            /\ rate_limits' = after
            /\ rate_file' = IF ret THEN save_rate_limits(after, rate_file, outcome)
                                   ELSE rate_file
            /\ writeFailed' = (writeFailed \/ outcome # "ok")
            /\ admitted' = IF ret THEN Append(admitted, now) ELSE admitted
            /\ rl_last' = [op |-> "check", raised |-> FALSE,
                           ret |-> ret, verdict |-> verdict,
                           warnings |-> Warnings(verdict),
                           pre |-> rate_limits, pre_file |-> rate_file,
                           write |-> IF ret THEN outcome ELSE "none"]
    /\ UNCHANGED <<now, cfg_vars, val_vars, app_vars>>

RateNext ==
    \/ Tick
    \/ NewProcess
    \/ AccessLost
    \/ CheckRateLimit

SpecRateLimit == RateInit /\ [][RateNext]_vars

(***************************************************************************)
(* The secure configuration store as a state machine                       *)
(***************************************************************************)
ConfigInit ==
    /\ now = 0
    /\ rate_file = MissingFile
    /\ rate_limits = load_rate_limits(rate_file)
    /\ rl_last = [op |-> "init", raised |-> FALSE]
    /\ admitted = <<>>
    /\ writeFailed = FALSE
    /\ ConfigStart
    /\ ValidatorIdle
    /\ AppIdle

ConfigNext ==
    \/ ClockAdvance
    \/ SaveSecureConfig
    \/ LoadSecureConfig
    \/ DamageBlob
    \/ ForeignChange

SpecSecureConfig == ConfigInit /\ [][ConfigNext]_vars

(***************************************************************************)
(* The validators and the audit log: one call per behaviour                *)
(***************************************************************************)
UtilInit ==
    /\ now = 0
    /\ rate_file = MissingFile
    /\ rate_limits = load_rate_limits(rate_file)
    /\ rl_last = [op |-> "init", raised |-> FALSE]
    /\ admitted = <<>>
    /\ writeFailed = FALSE
    /\ ConfigIdle
    /\ arg \in Calls
    /\ res = NoResult
    /\ AppIdle

UtilNext ==
    \/ ValidateInputSafety
    \/ ValidateApiKeyFormat
    \/ MaskApiKey
    \/ SanitizeFilename
    \/ LogSecurityEvent
    \/ SetupSecureLogging
    \/ VerifyConfigIntegrity
    \/ Validate

SpecUtilities == UtilInit /\ [][UtilNext]_vars

(***************************************************************************)
(* The launcher as a state machine: one run after the other                *)
(***************************************************************************)
\* The arguments of a run of the launcher.  --reset-lang returns before any
\* other argument is read and --select-lang never reads --lang, so these two
\* are given without the arguments they ignore.
LauncherArgs ==
    {args \in [lang : {None, Str("fr"), Str("en")},
               config : BOOLEAN,
               select_lang : BOOLEAN,
               reset_lang : BOOLEAN,
               secure_mode : BOOLEAN,
               unknown_args : {<<>>}] :
        /\ args.reset_lang =>
              ~args.select_lang /\ args.lang = None /\ ~args.config /\ ~args.secure_mode
        /\ args.select_lang => args.lang = None}

\* The environments of a run: LANG and the default locale
LanguageEnvironments ==
    {[LANG |-> "fr", locale |-> "other"], [LANG |-> "en", locale |-> "other"],
     [LANG |-> "other", locale |-> "fr"], [LANG |-> "other", locale |-> "other"]}

\* The chat programs installed next to the launcher
Installations == {Scripts, {"ai_chat_en.py"}, {}}

\* What is typed at the prompt of --select-lang
Choices == {"1", "2", "3"}

\* The chat program was not run
NotStarted == [accepted |-> FALSE, credentials |-> "none"]

LauncherInit ==
    /\ now = 0
    /\ rate_file = MissingFile
    /\ rate_limits = load_rate_limits(rate_file)
    /\ rl_last = [op |-> "init", raised |-> FALSE]
    /\ admitted = <<>>
    /\ writeFailed = FALSE
    /\ ConfigIdle
    /\ ValidatorIdle
    /\ AppIdle

\* One run of the launcher, the whole of main()
Launch ==
    \E args \in LauncherArgs, choice \in Choices, env \in LanguageEnvironments,
       write \in WriteOutcomes, unlink \in {"ok", "failed"}, installed \in Installations :
        LET run == launcher_main(args, choice, language_file, env, write, unlink, installed)
            saves == ~args.reset_lang /\ (args.select_lang \/ Truthy(args.lang))
            removes == args.reset_lang /\ exists(language_file).val
            detects == ~args.reset_lang /\ ~saves
        IN  /\ ~args.select_lang => choice = "1"        \* nothing is asked
            /\ ~detects => env.LANG = "en"              \* the environment is not read
            /\ ~saves => write = "ok"                   \* nothing is written
            /\ ~removes => unlink = "ok"                \* nothing is removed
            /\ args.reset_lang => installed = Scripts   \* no script is looked for
            /\ language_file' = run.language_file
            /\ forced' =
                  IF args.reset_lang
                  THEN IF removes /\ unlink = "failed"
                       THEN [forced EXCEPT !.reset = "failed"]
                       ELSE [lang |-> "", reset |-> "removed"]
                  ELSE IF saves
                       THEN IF ~args.select_lang /\ write = "ok"
                            THEN [lang |-> args.lang.str, reset |-> "none"]
                            ELSE [lang |-> "?", reset |-> "none"]
                       ELSE forced
            /\ app_last' = [op |-> "launch", args |-> args,
                            detected |-> get_system_language(env),
                            lang |-> run.lang, launched |-> run.launched, cmd |-> run.cmd,
                            child |-> IF run.launched THEN chat_start(run.cmd) ELSE NotStarted,
                            before |-> forced, pre_file |-> language_file]
            /\ UNCHANGED <<now, rl_vars, cfg_vars, val_vars, config_file, backup_files>>

LauncherNext == Launch

SpecLauncher == LauncherInit /\ [][LauncherNext]_vars

(***************************************************************************)
(* config.json as a state machine: the chat program and the migration      *)
(***************************************************************************)
\* Configurations written by earlier versions: with base_url or api_url, with
\* or without llm_type
OldConfigs ==
    {[k \in {"model", "llm_name"} \cup keys |->
         CASE k = "model" -> Str("llama2")
           [] k = "llm_name" -> Str("Ollama (Local)")
           [] k = "base_url" -> Str("http://old")
           [] k = "api_url" -> Str("http://new")
           [] k = "llm_type" -> Str("ollama")] :
     keys \in SUBSET {"base_url", "api_url", "llm_type"}}

InitialConfigFiles ==
    {MissingFile, CorruptFile, JsonFile(JsonList(<<>>))} \cup {JsonFile(c) : c \in OldConfigs}

\* What is typed into the wizard, and whether the ollama program is installed
WizardAnswers ==
    [choice : DOMAIN llm_types, ollama_installed : BOOLEAN,
     model : {"llama2"}, api_key : {"sk-A"}]

\* The command lines of the chat program
ChatArguments == {<<>>, <<"--config">>, <<"--secure-mode">>}

ConfigFileInit ==
    /\ now = 0
    /\ rate_file = MissingFile
    /\ rate_limits = load_rate_limits(rate_file)
    /\ rl_last = [op |-> "init", raised |-> FALSE]
    /\ admitted = <<>>
    /\ writeFailed = FALSE
    /\ ConfigIdle
    /\ ValidatorIdle
    /\ config_file \in InitialConfigFiles
    /\ backup_files = EmptyRecord
    /\ language_file = MissingFile
    /\ forced = NothingForced
    /\ app_last = [op |-> "none"]

\* One second passes
Elapse ==
    /\ now < MaxSeconds
    /\ now' = now + 1
    /\ UNCHANGED <<rl_vars, cfg_vars, val_vars, app_vars>>

\* One run of migrate_config(), the whole call
MigrateConfig ==
    \E backup_write \in WriteOutcomes, config_write \in WriteOutcomes :
        LET run == migrate_config(config_file, backup_files, now, backup_write, config_write)
            writes == run.ret => run.config_file # config_file
        IN  /\ (~writes \/ backup_write # "ok") => config_write = "ok"
            /\ ~writes => backup_write = "ok"
            /\ config_file' = run.config_file
            /\ backup_files' = run.backup_files
            /\ app_last' = [op |-> "migrate", ret |-> run.ret, seconds |-> now,
                            pre_file |-> config_file, pre_backups |-> backup_files,
                            again |-> (app_last.op = "migrate" /\ app_last.ret)]
            /\ UNCHANGED <<now, rl_vars, cfg_vars, val_vars, language_file, forced>>

\* One run of the chat program up to the start of its session, the whole of
\* main() with the wizard it runs
ChatProgram ==
    \E argv \in ChatArguments, answers \in WizardAnswers, write \in WriteOutcomes :
        LET run == chat_main(argv, config_file, answers, write)
            asks == parse_args(argv).ok /\ (config_file.kind # "json" \/ argv # <<>>)
        IN  /\ ~asks => (write = "ok" /\ answers.choice = "1" /\ answers.ollama_installed)
            /\ answers.choice # "1" => answers.ollama_installed
            /\ config_file' = run.config_file
            /\ app_last' = [op |-> "chat", argv |-> argv, exit |-> run.exit,
                            session |-> run.session, wizard |-> run.wizard,
                            credentials |-> IF parse_args(argv).ok THEN credentials_file
                                            ELSE "none"]
            /\ UNCHANGED <<now, rl_vars, cfg_vars, val_vars, backup_files, language_file, forced>>

ConfigFileNext ==
    \/ Elapse
    \/ MigrateConfig
    \/ ChatProgram

SpecConfigFile == ConfigFileInit /\ [][ConfigFileNext]_vars

(***************************************************************************)
(* Properties of the rate limiter                                          *)
(***************************************************************************)
\* The age, at instant t, of a ledger entry
AgeAt(entry, t) == t - fromisoformat(entry)

\* The number of ledger entries younger than span at instant t
YoungerThan(requests, t, span) ==
    Cardinality({i \in 1..Len(requests) : AgeAt(requests[i], t) < span})

\* The number of admitted requests in the trailing window (t - span, t]
AdmittedIn(history, t, span) ==
    Cardinality({i \in 1..Len(history) : history[i] <= t /\ t - history[i] < span})

\* The number of times e occurs in a sequence
Occurrences(seq, e) == Cardinality({i \in 1..Len(seq) : seq[i] = e})

AfterCheck == rl_last.op = "check"

\* The ledger of the last call before it, with the entries of one day or more left out
PreFresh ==
    SelectSeq(rl_last.pre.requests, LAMBDA e : AgeAt(e, now) < Day)

LimitsUnchanged ==
    /\ rate_limits.daily_limit = rl_last.pre.daily_limit
    /\ rate_limits.hourly_limit = rl_last.pre.hourly_limit
    /\ rate_limits.minute_limit = rl_last.pre.minute_limit

\* The requests admitted before the last call
AdmittedBefore ==
    IF rl_last.ret THEN SubSeq(admitted, 1, Len(admitted) - 1) ELSE admitted

\* C1: as long as every write of the ledger file succeeded (the clock of the
\* model never runs backwards, processes may restart and reload the file), the
\* admitted requests in the trailing minute, hour and day that end at any
\* instant never number more than minute_limit, hourly_limit and daily_limit.
C1_WindowCaps ==
    ~writeFailed =>
        \A t \in Times :
            /\ AdmittedIn(admitted, t, Minute) <= rate_limits.minute_limit
            /\ AdmittedIn(admitted, t, Hour) <= rate_limits.hourly_limit
            /\ AdmittedIn(admitted, t, Day) <= rate_limits.daily_limit

\* C1 witness: with no write failure so far, a call is rejected by the minute
\* window while the trailing minute holds exactly minute_limit = 2 admitted
\* requests.
C1_Witness ==
    /\ ~writeFailed
    /\ AfterCheck /\ ~rl_last.ret
    /\ rl_last.verdict = "minute"
    /\ AdmittedIn(admitted, now, Minute) = rate_limits.minute_limit
    /\ rate_limits.minute_limit = 2

\* C2: the call returns true exactly when, after the clean-up, the daily, the
\* hourly and the minute count are each below their limit; when it returns
\* true the ledger is the cleaned ledger followed by one entry for the call's
\* instant, and the limits are unchanged.
C2_AdmitIffBelowLimits ==
    AfterCheck =>
        /\ rl_last.ret <=>
            /\ Len(PreFresh) < rl_last.pre.daily_limit
            /\ YoungerThan(PreFresh, now, Hour) < rl_last.pre.hourly_limit
            /\ YoungerThan(PreFresh, now, Minute) < rl_last.pre.minute_limit
        /\ rl_last.ret =>
            /\ Len(rate_limits.requests) = Len(PreFresh) + 1
            /\ SubSeq(rate_limits.requests, 1, Len(PreFresh)) = PreFresh
            /\ fromisoformat(rate_limits.requests[Len(rate_limits.requests)]) = now
            /\ LimitsUnchanged

\* C2 witness: a request is admitted behind an unexpired earlier one.
C2_Witness ==
    /\ AfterCheck /\ rl_last.ret
    /\ Len(PreFresh) >= 1
    /\ now > 0

\* C7: a rejected call records nothing: the ledger in memory gains no entry
\* (each entry occurs at most as often as before the call), the file is as it
\* was before the call, and the three limits are unchanged.
C7_RejectedNotRecorded ==
    (AfterCheck /\ ~rl_last.ret) =>
        /\ Len(rate_limits.requests) <= Len(rl_last.pre.requests)
        /\ \A i \in 1..Len(rate_limits.requests) :
              Occurrences(rate_limits.requests, rate_limits.requests[i])
                  <= Occurrences(rl_last.pre.requests, rate_limits.requests[i])
        /\ rate_file = rl_last.pre_file
        /\ LimitsUnchanged

\* C7 witness: a call is rejected at an instant no ledger entry carries.
C7_Witness ==
    /\ AfterCheck /\ ~rl_last.ret
    /\ Occurrences(rl_last.pre.requests, isoformat(now)) = 0
    /\ rate_file.kind = "json"

\* C8: after a call, admitted or rejected, no ledger entry is older than one
\* day, and the entries younger than one day that the ledger held before the
\* call are still its first entries, in their order.
C8_PrunedAndKept ==
    AfterCheck =>
        /\ \A i \in 1..Len(rate_limits.requests) :
              AgeAt(rate_limits.requests[i], now) <= Day
        /\ Len(rate_limits.requests) >= Len(PreFresh)
        /\ SubSeq(rate_limits.requests, 1, Len(PreFresh)) = PreFresh

\* C8 witness: a rejected call drops an expired entry and keeps a younger one.
C8_Witness ==
    /\ AfterCheck /\ ~rl_last.ret
    /\ Len(PreFresh) >= 1
    /\ Len(PreFresh) < Len(rl_last.pre.requests)

\* C9: after every call, admitted or rejected, with no write of the file
\* having failed, the request list in rate_limits.json equals the ledger in memory.
C9_LedgerPersisted ==
    (AfterCheck /\ ~writeFailed) =>
        /\ rate_file.kind = "json"
        /\ rate_file.data.requests = rate_limits.requests

\* C10: with minute_limit = m and no write failure: a call with fewer than m
\* admitted requests in the last minute, and the hourly and daily caps not
\* reached, is admitted; a call with m admitted requests in the last minute is
\* rejected; a call more than a minute after the most recent admission, the
\* caps not reached, is admitted.
C10_MinuteWindow ==
    (AfterCheck /\ ~writeFailed) =>
        LET m == rl_last.pre.minute_limit
            inMinute == AdmittedIn(AdmittedBefore, now, Minute)
            capsNotReached ==
                /\ AdmittedIn(AdmittedBefore, now, Hour) < rl_last.pre.hourly_limit
                /\ AdmittedIn(AdmittedBefore, now, Day) < rl_last.pre.daily_limit
        IN  /\ (capsNotReached /\ inMinute < m) => rl_last.ret
            /\ inMinute >= m => ~rl_last.ret
            /\ ( /\ capsNotReached
                 /\ AdmittedBefore # <<>>
                 /\ now - AdmittedBefore[Len(AdmittedBefore)] > Minute ) => rl_last.ret

\* C10 witness: with minute_limit = 2, two requests were admitted within one
\* minute and a third is admitted more than a minute after the second.
C10_Witness ==
    /\ AfterCheck /\ rl_last.ret /\ ~writeFailed
    /\ rl_last.pre.minute_limit = 2
    /\ Len(admitted) = 3
    /\ admitted[2] - admitted[1] < Minute
    /\ admitted[3] - admitted[2] > Minute

(***************************************************************************)
(* Properties of the secure configuration store                            *)
(***************************************************************************)
AfterSave == cfg_last.op = "save" /\ ~cfg_last.raised
AfterLoad == cfg_last.op = "load"

\* The keys save_secure_config writes itself
StoreKeys == {EncryptedField(f) : f \in Sensitive} \cup {"encrypted_timestamp"}

\* A field the caller's record gives a non-empty value
GivenNonEmpty(c, f) == f \in DOMAIN c /\ Truthy(c[f])

\* The blob stored for a field, and what went into it when it was encrypted
StoredBlob(f) == secure_file.data[EncryptedField(f)]
TokenOf(blob) == blob.encrypted_data.b64
HasBlob(f) == secure_file.kind = "json" /\ EncryptedField(f) \in DOMAIN secure_file.data

\* The last load decrypted the field: its blob is gone from the returned record
Decrypted(f) == HasBlob(f) /\ EncryptedField(f) \notin DOMAIN cfg_last.ret
\* The last load could not decrypt the field
NotDecrypted(f) == HasBlob(f) /\ EncryptedField(f) \in DOMAIN cfg_last.ret

\* The decoded bytes of the blob are not those the encryption produced
BytesChanged(blob) ==
    \/ blob.salt.b64 # TokenOf(blob).key.salt
    \/ ~TokenOf(blob).authentic

\* The texts of the blob are not those the encryption produced
TextChanged(blob) ==
    \/ BytesChanged(blob)
    \/ blob.salt.form # "canonical"
    \/ blob.encrypted_data.form # "canonical"

\* C3: after a save that wrote the file, the file holds no non-empty value
\* under api_key, password or token: every field the input gave a non-empty
\* value is absent and has its <field>_encrypted entry.
C3_NoPlaintextOnDisk ==
    AfterSave =>
        \A f \in Sensitive :
            /\ f \in DOMAIN secure_file.data => ~Truthy(secure_file.data[f])
            /\ GivenNonEmpty(caller.config, f) =>
                  /\ f \notin DOMAIN secure_file.data
                  /\ EncryptedField(f) \in DOMAIN secure_file.data

\* What C4 says of the record c saved and the record ret loaded back
RoundTrip(c, ret) ==
    /\ \A f \in Sensitive :
          GivenNonEmpty(c, f) => (f \in DOMAIN ret /\ ret[f] = c[f])
    /\ \A f \in Sensitive : EncryptedField(f) \notin DOMAIN ret
    /\ \A k \in DOMAIN c \ Sensitive : k \in DOMAIN ret /\ ret[k] = c[k]
    /\ DOMAIN ret \subseteq DOMAIN c \cup {"encrypted_timestamp"}

\* A load with the password of the save that wrote the file, the file untouched since
LoadOfSaved ==
    /\ AfterLoad
    /\ saved /\ ~damaged
    /\ cfg_last.master_password = caller.master_password

\* C4 as claimed: for every record c and password p, load(p) after save(c, p)
\* returns every non-empty sensitive field of c with its value, no
\* <field>_encrypted key, and every other field of c unchanged, with
\* encrypted_timestamp the only added key.
C4_RoundTripAnyRecord ==
    LoadOfSaved => RoundTrip(caller.config, cfg_last.ret)

\* C4 amended: the same, for every record c that carries no <field>_encrypted
\* key and no encrypted_timestamp key of its own.
C4_RoundTrip ==
    (LoadOfSaved /\ DOMAIN caller.config \cap StoreKeys = {}) =>
        RoundTrip(caller.config, cfg_last.ret)

\* C4 witness: a record with two non-empty sensitive fields and none of the
\* store's keys was saved, both fields were encrypted, and it is loaded back.
C4_Witness ==
    /\ LoadOfSaved
    /\ DOMAIN caller.config \cap StoreKeys = {}
    /\ Decrypted("api_key") /\ Decrypted("password")
    /\ cfg_last.ret["api_key"] # cfg_last.ret["password"]

\* C5 as claimed: a load does not raise; each field whose blob does not
\* decrypt keeps its blob unchanged in the returned record, which has no
\* <field> key; each field whose blob decrypts is returned in plaintext.
C5_UndecryptableKeptNoPlainKey ==
    (AfterLoad /\ secure_file.kind = "json") =>
        /\ ~cfg_last.raised
        /\ \A f \in Sensitive :
              /\ NotDecrypted(f) =>
                    /\ cfg_last.ret[EncryptedField(f)] = StoredBlob(f)
                    /\ f \notin DOMAIN cfg_last.ret
              /\ Decrypted(f) =>
                    /\ f \in DOMAIN cfg_last.ret
                    /\ IsStr(cfg_last.ret[f])

\* C5 amended: a load does not raise; each field whose blob does not decrypt
\* keeps its blob unchanged in the returned record, and its <field> entry is
\* as the file holds it (none when the file holds none); each field whose
\* blob decrypts is returned in plaintext.
C5_UndecryptableKept ==
    (AfterLoad /\ secure_file.kind = "json") =>
        /\ ~cfg_last.raised
        /\ \A f \in Sensitive :
              /\ NotDecrypted(f) =>
                    /\ cfg_last.ret[EncryptedField(f)] = StoredBlob(f)
                    /\ f \in DOMAIN cfg_last.ret <=> f \in DOMAIN secure_file.data
                    /\ f \in DOMAIN cfg_last.ret => cfg_last.ret[f] = secure_file.data[f]
              /\ Decrypted(f) =>
                    /\ f \in DOMAIN cfg_last.ret
                    /\ IsStr(cfg_last.ret[f])

\* C5 witness: a load in which one blob does not decrypt and another does.
C5_Witness ==
    /\ AfterLoad
    /\ \E f, g \in Sensitive :
          /\ NotDecrypted(f)
          /\ f \notin DOMAIN cfg_last.ret
          /\ Decrypted(g)

AfterSaveCall == cfg_last.op = "save"

\* The encryption of a field the caller's record gives raises
EncryptionFails(c, f) == GivenNonEmpty(c, f) /\ c[f].str \in Unencodable

\* The file holds the field encrypted: no plaintext entry, and a blob that
\* decrypts to the given value under the caller's password
StoredEncrypted(f) ==
    /\ f \in DOMAIN caller.config
    /\ HasBlob(f)
    /\ f \notin DOMAIN secure_file.data
    /\ TokenOf(StoredBlob(f)).msg.utf8 = caller.config[f].str
    /\ TokenOf(StoredBlob(f)).key.password = caller.master_password
    /\ TokenOf(StoredBlob(f)).authentic

\* A save in which the dump went well and the encryption of some field raised
SaveWithFailedField ==
    /\ AfterSaveCall /\ cfg_last.outcome = "ok"
    /\ \E f \in Sensitive : EncryptionFails(caller.config, f)

\* C11 as claimed: when the encryption of a field raises, the save does not
\* raise, the file is written, every other non-empty sensitive field is
\* encrypted, and the file has no <field>_encrypted entry for the failed field.
C11_FailedFieldHasNoEntry ==
    SaveWithFailedField =>
        /\ ~cfg_last.raised
        /\ secure_file.kind = "json"
        /\ \A f \in Sensitive :
              /\ (GivenNonEmpty(caller.config, f) /\ ~EncryptionFails(caller.config, f))
                    => StoredEncrypted(f)
              /\ EncryptionFails(caller.config, f)
                    => EncryptedField(f) \notin DOMAIN secure_file.data

\* C11 amended: the same, except that the failed field gets no entry from
\* this save: the file holds a <field>_encrypted entry for it only when the
\* record given already carried one, and then holds that one unchanged.
C11_EncryptFailureNotFatal ==
    SaveWithFailedField =>
        /\ ~cfg_last.raised
        /\ secure_file.kind = "json"
        /\ \A f \in Sensitive :
              /\ (GivenNonEmpty(caller.config, f) /\ ~EncryptionFails(caller.config, f))
                    => StoredEncrypted(f)
              /\ EncryptionFails(caller.config, f) =>
                    /\ EncryptedField(f) \in DOMAIN secure_file.data
                          <=> EncryptedField(f) \in DOMAIN caller.config
                    /\ EncryptedField(f) \in DOMAIN secure_file.data
                          => StoredBlob(f) = caller.config[EncryptedField(f)]

\* C11 witness: a save in which the encryption of one field raised and two
\* other fields were encrypted.
C11_Witness ==
    /\ SaveWithFailedField
    /\ EncryptionFails(caller.config, "token")
    /\ "token_encrypted" \notin DOMAIN secure_file.data
    /\ StoredEncrypted("api_key") /\ StoredEncrypted("password")

\* C12: a save whose write of secure_config.json fails raises to its caller
\* and adds no event to the audit log.
C12_WriteFailureRaises ==
    (AfterSaveCall /\ cfg_last.outcome # "ok") =>
        /\ cfg_last.raised
        /\ cfg_last.logged = <<>>

\* C12 witness: a save fails while dumping, after an earlier save had written
\* the file, and leaves a file that is not valid JSON.
C12_Witness ==
    /\ AfterSaveCall /\ cfg_last.outcome = "dump_failed"
    /\ cfg_last.raised
    /\ secure_file = CorruptFile
    /\ entropy > 2

\* C13: a load never raises and always returns a record (a dict), which is
\* empty when there is no file, when the file cannot be read and when it is
\* not valid JSON.
C13_LoadNeverRaises ==
    AfterLoad =>
        /\ ~cfg_last.raised
        /\ IsDict(cfg_last.ret)
        /\ secure_file.kind \in {"missing", "corrupt", "unreadable"}
              => cfg_last.ret = EmptyRecord

(***************************************************************************)
(* Properties of the rate limiter under I/O failures                       *)
(***************************************************************************)
\* C14: no construction of the SecurityManager and no check_rate_limit() call
\* raises, whatever happens to rate_limits.json; check_rate_limit() returns
\* its boolean decision.
C14_LedgerIOSwallowed ==
    /\ rl_last.op = "init" => ~rl_last.raised
    /\ rl_last.op = "check" => (~rl_last.raised /\ rl_last.ret \in BOOLEAN)

(***************************************************************************)
(* Properties of the audit log and of the salts                            *)
(***************************************************************************)
\* C15: no call of log_security_event and no set-up of the audit log raises,
\* whatever the details of the event and whatever happens to audit.log.
C15_AuditNeverRaises ==
    (res.done /\ arg.fn \in {"log_security_event", "setup_secure_logging"})
        => ~res.raised

\* C16: no two blobs returned by encrypt_sensitive_data(), for different
\* fields of one save or for the same field in different saves, have the same
\* salt or the same ciphertext, also when plaintext and password are the same.
C16_FreshSalts ==
    \A i, j \in 1..Len(issued) :
        i < j =>
            /\ issued[i].salt # issued[j].salt
            /\ issued[i].encrypted_data # issued[j].encrypted_data

\* C16 witness: two saves of a record with two sensitive fields: four blobs,
\* the first and the third of the same plaintext under the same password.
C16_Witness ==
    /\ Len(issued) = 4
    /\ TokenOf(issued[1]).msg = TokenOf(issued[3]).msg
    /\ TokenOf(issued[1]).key.password = TokenOf(issued[3]).key.password
    /\ TokenOf(issued[1]).msg # TokenOf(issued[2]).msg
    /\ issued[1].salt # issued[3].salt

(***************************************************************************)
(* Properties of the validators                                            *)
(***************************************************************************)
\* The call of the named function has returned
Called(fn) == arg.fn = fn /\ res.done

\* sub occurs in s at position i
OccursAt(sub, s, i) ==
    /\ i + Len(sub) - 1 <= Len(s)
    /\ SubSeq(s, i, i + Len(sub) - 1) = sub
Contains(s, sub) == \E i \in 1..Len(s) : OccursAt(sub, s, i)

\* name, then optional whitespace, then an opening parenthesis
ContainsCall(s, name) ==
    \E i \in 1..Len(s) :
        /\ OccursAt(name, s, i)
        /\ \E j \in (i + Len(name))..Len(s) :
              /\ s[j] = "("
              /\ \A m \in (i + Len(name))..(j - 1) : s[m] \in Whitespace

\* What C17 calls unsafe; the words in any case are looked for in s.lower()
Unsafe(s) ==
    LET folded == lower(s)
    IN  \/ \E i \in 1..Len(s) : s[i] \in {";", "&", "|", Backtick}
        \/ Contains(s, <<"$", "(">>)
        \/ ContainsCall(folded, <<"e", "v", "a", "l">>)
        \/ ContainsCall(folded, <<"e", "x", "e", "c">>)
        \/ Contains(folded, <<"s", "u", "b", "p", "r", "o", "c", "e", "s", "s">>)
        \/ Contains(folded, <<"o", "s", ".", "s", "y", "s", "t", "e", "m">>)
        \/ Contains(folded, <<"s", "h", "e", "l", "l", "=", "t", "r", "u", "e">>)

\* C17: validate_input_safety(s) is false exactly when s holds one of the
\* characters ; & | or a backtick, or "$(", or in any case eval( or exec( with
\* optional whitespace before the parenthesis, subprocess, os.system or
\* shell=True; it is true for every other s.
C17_InputSafety ==
    Called("validate_input_safety") => (res.ret <=> ~Unsafe(arg.user_input))

\* C17 witness: "EXEC (", in capitals and with a space, is refused.
C17_Witness ==
    /\ Called("validate_input_safety")
    /\ arg.user_input = <<"E", "X", "E", "C", " ", "(">>
    /\ ~res.ret

\* key is prefix followed by alphanumerics only, at least min of them
PrefixThenAlnum(key, prefix, min) ==
    /\ Len(key) >= Len(prefix) + min
    /\ SubSeq(key, 1, Len(prefix)) = prefix
    /\ \A i \in (Len(prefix) + 1)..Len(key) : key[i] \in Alnum

\* What C18 calls the shape of a provider's keys
ClaimedShape(key, provider) ==
    LET name == lower(provider)
    IN  CASE name = <<"o", "p", "e", "n", "a", "i">> -> PrefixThenAlnum(key, <<"s", "k", "-">>, 48)
          [] name = <<"g", "r", "o", "q">> ->
                PrefixThenAlnum(key, <<"g", "s", "k", "_">>, 52) /\ Len(key) = 4 + 52
          [] name = <<"o", "p", "e", "n", "r", "o", "u", "t", "e", "r">> ->
                PrefixThenAlnum(key, <<"s", "k", "-", "o", "r", "-", "v", "1", "-">>, 64) /\ Len(key) = 9 + 64
          [] name = <<"a", "n", "t", "h", "r", "o", "p", "i", "c">> ->
                Len(key) >= 7 /\ SubSeq(key, 1, 7) = <<"s", "k", "-", "a", "n", "t", "-">>
          [] OTHER ->
                /\ Len(key) > 10
                /\ \E i \in 1..Len(key) : key[i] \in Alnum
                /\ \A i \in 1..Len(key) : key[i] \in Alnum \cup {"-", "_"}

\* C18: validate_api_key_format(key, provider) is true exactly when the whole
\* key has the shape of the provider, whose name is compared without case:
\* openai "sk-" and at least 48 alphanumerics, groq "gsk_" and exactly 52,
\* openrouter "sk-or-v1-" and exactly 64, anthropic a key that starts with
\* "sk-ant-", any other provider more than 10 characters that are
\* alphanumeric once "-" and "_" are stripped.
C18_ApiKeyFormat ==
    Called("validate_api_key_format")
        => (res.ret <=> ClaimedShape(arg.api_key, arg.provider))

\* C19: the name sanitize_filename returns holds no reserved character, has
\* no dot or space at either end, and is at most 255 characters long.
C19_SanitizedFilename ==
    Called("sanitize_filename") =>
        /\ \A i \in 1..Len(res.ret) : res.ret[i] \notin ReservedChars
        /\ res.ret # <<>> =>
              /\ res.ret[1] \notin {".", " "}
              /\ res.ret[Len(res.ret)] \notin {".", " "}
        /\ Len(res.ret) <= 255

\* C20: mask_api_key(k) is as long as k; it is asterisks only when k has at
\* most 8 characters; else its first 4 and last 4 characters are those of k
\* and every character between them is an asterisk.
C20_MaskApiKey ==
    Called("mask_api_key") =>
        LET k == arg.api_key
            masked == res.ret
        IN  /\ Len(masked) = Len(k)
            /\ Len(k) <= 8 => \A i \in 1..Len(k) : masked[i] = "*"
            /\ Len(k) > 8 =>
                  \A i \in 1..Len(k) :
                      masked[i] = IF i <= 4 \/ i > Len(k) - 4 THEN k[i] ELSE "*"

\* C20 witness: a key of nine letters is masked in its fifth character only.
C20_Witness ==
    /\ Called("mask_api_key")
    /\ arg.api_key = Repeat("k", 9)
    /\ res.ret = <<"k", "k", "k", "k", "*", "k", "k", "k", "k">>

(***************************************************************************)
(* The audit event of a save and the caller's record                       *)
(***************************************************************************)
\* The sensitive fields a save call encrypted: those given non-empty whose
\* encryption did not raise
EncryptedByCall(c) ==
    {f \in Sensitive : GivenNonEmpty(c, f) /\ ~EncryptionFails(c, f)}

\* C25: the config_encrypted event of a successful save carries
\* fields_encrypted equal to the number of sensitive fields this call
\* encrypted, for every record given (also one that carries <field>_encrypted
\* keys, or a field whose encryption raised), and carries no field value.
C25_EventCountsEncryptedFields ==
    (AfterSaveCall /\ ~cfg_last.raised /\ cfg_last.logged # <<>>) =>
        /\ cfg_last.logged[1].event_type = "config_encrypted"
        /\ cfg_last.logged[1].details =
              [fields_encrypted |-> Num(Cardinality(EncryptedByCall(cfg_last.given)))]

C24_OneWarningCoarsestWindow ==
    (AfterCheck /\ ~rl_last.ret) =>
        /\ Len(rl_last.warnings) = 1
        /\ rl_last.warnings[1] =
              IF Len(PreFresh) >= rl_last.pre.daily_limit
              THEN "Daily rate limit exceeded"
              ELSE IF YoungerThan(PreFresh, now, Hour) >= rl_last.pre.hourly_limit
                   THEN "Hourly rate limit exceeded"
                   ELSE "Minute rate limit exceeded"

\* The hourly and the minute threshold are both reached, the daily one is not,
\* and the warning names the hour
C24_Witness ==
    /\ AfterCheck /\ ~rl_last.ret
    /\ Len(PreFresh) < rl_last.pre.daily_limit
    /\ YoungerThan(PreFresh, now, Hour) >= rl_last.pre.hourly_limit
    /\ YoungerThan(PreFresh, now, Minute) >= rl_last.pre.minute_limit
    /\ rl_last.warnings = <<"Hourly rate limit exceeded">>

(***************************************************************************)
(* Properties of verify_config_integrity                                   *)
(***************************************************************************)
\* C21: verify_config_integrity(c) returns true exactly when c has both the
\* keys llm_type and model and its llm_type is one of ollama, lmstudio, openai,
\* anthropic, groq, openrouter; otherwise it returns false, without raising;
\* the record c is the same after the call.
C21_ConfigIntegrity ==
    Called("verify_config_integrity") =>
        LET c == arg.config_data
        IN  /\ ~res.raised
            /\ res.ret = (/\ {"llm_type", "model"} \subseteq DOMAIN c
                          /\ c["llm_type"] \in
                                 {Str("ollama"), Str("lmstudio"), Str("openai"),
                                  Str("anthropic"), Str("groq"), Str("openrouter")})
            /\ res.config_data = c

\* A record with a known llm_type and no model was refused
C21_Witness ==
    /\ Called("verify_config_integrity")
    /\ DOMAIN arg.config_data = {"llm_type", "api_key"}
    /\ arg.config_data["llm_type"] = Str("groq")
    /\ res.ret = FALSE

(***************************************************************************)
(* Properties of the --validate command                                    *)
(***************************************************************************)
\* The critical issues of an environment: no configuration directory, no
\* cryptography library
CriticalIssues(env) ==
    (IF env.config_dir = "missing" THEN {"Configuration directory does not exist"} ELSE {})
    \cup (IF ~env.crypto THEN {"Cryptography library not installed"} ELSE {})

\* C23: --validate exits with status 0 exactly when there is no critical issue
\* and with status 1 otherwise; a missing configuration directory and a missing
\* cryptography library are each reported in the printed summary; warnings
\* never change the exit status.
C23_ValidateExitStatus ==
    Called("validate") =>
        /\ res.exit = (IF CriticalIssues(arg.env) = {} THEN 0 ELSE 1)
        /\ res.summary
        /\ CriticalIssues(arg.env) \subseteq res.issues

(***************************************************************************)
(* Properties of the launcher                                              *)
(***************************************************************************)
AfterLaunch == app_last.op = "launch"

\* C22: a run of the launcher with --secure-mode starts a chat program that
\* accepts the flag, starts its session and keeps its credentials in the
\* encrypted secure_config.json and not in config.json.
C22_SecureModeActivates ==
    (AfterLaunch /\ app_last.launched /\ app_last.args.secure_mode) =>
        /\ app_last.child.accepted
        /\ app_last.child.credentials = "secure_config.json"

\* A run that neither resets nor selects the language, and one that does not
\* force it either
ChoosingRun ==
    AfterLaunch /\ ~app_last.args.reset_lang /\ ~app_last.args.select_lang
PlainRun == ChoosingRun /\ ~Truthy(app_last.args.lang)

\* The preference file of the run held a language
SavedBefore ==
    /\ app_last.pre_file.kind = "json"
    /\ "preferred_language" \in DOMAIN app_last.pre_file.data

\* The priority of a choosing run: --lang, else the saved preference, else
\* the detected language
Priority ==
    ChoosingRun =>
        app_last.lang =
            IF Truthy(app_last.args.lang) THEN app_last.args.lang.str
            ELSE IF SavedBefore THEN app_last.pre_file.data["preferred_language"].str
            ELSE app_last.detected

\* The last run with --lang wrote its language X, and no run wrote over it
ForcedBefore ==
    app_last.before.lang \in {"fr", "en"}

\* C28 as claimed: the priority is --lang, saved preference, detection; after
\* a run with --lang X that wrote the preference file every later plain run
\* uses X until --reset-lang is run, and after a run of --reset-lang the
\* language is detected again.
C28_PersistsUntilResetRun ==
    /\ Priority
    /\ PlainRun =>
          /\ (ForcedBefore /\ app_last.before.reset = "none")
                => app_last.lang = app_last.before.lang
          /\ app_last.before.reset \in {"removed", "failed"}
                => app_last.lang = app_last.detected

\* C28 amended: the same, except that only a --reset-lang run that removed the
\* preference file (or found none) ends the persistence; after a run whose
\* removal failed the plain runs still use X.
C28_LanguagePriority ==
    /\ Priority
    /\ PlainRun =>
          /\ (ForcedBefore /\ app_last.before.reset \in {"none", "failed"})
                => app_last.lang = app_last.before.lang
          /\ app_last.before.reset = "removed"
                => app_last.lang = app_last.detected

\* A plain run in an English environment used the French that an earlier
\* run had forced, and ran the French chat program
C28_Witness ==
    /\ PlainRun
    /\ app_last.launched
    /\ app_last.before = [lang |-> "fr", reset |-> "none"]
    /\ app_last.detected = "en"
    /\ app_last.lang = "fr"
    /\ app_last.cmd[2] = "ai_chat_fr.py"

(***************************************************************************)
(* Properties of the wizard and of the migration                           *)
(***************************************************************************)
\* C29: every configuration the wizard returns and writes to config.json has
\* llm_type, one of the six known types, and model; it passes
\* verify_config_integrity and start_chat can read its model.
C29_WizardConfigComplete ==
    (app_last.op = "chat" /\ app_last.wizard # None) =>
        LET config == app_last.wizard
        IN  /\ config_file = JsonFile(config)
            /\ {"llm_type", "model"} \subseteq DOMAIN config
            /\ config["llm_type"].str \in valid_llm_types
            /\ verify_config_integrity(config).ret
            /\ start_chat(config).ok

AfterMigration == app_last.op = "migrate"

\* The run changed the configuration
Migrated ==
    AfterMigration /\ app_last.ret /\ config_file # app_last.pre_file

\* C27: when migrate_config changes the configuration, the backup file holds
\* the configuration as it was before (with its base_url, without the added
\* llm_type) and config.json holds the migrated one.
C27_BackupHoldsOriginal ==
    Migrated =>
        /\ app_last.seconds \in DOMAIN backup_files
        /\ backup_files[app_last.seconds] = app_last.pre_file
        /\ config_file.kind = "json"
        /\ "base_url" \notin DOMAIN config_file.data
        /\ "llm_type" \in DOMAIN config_file.data

\* C30: after a run of migrate_config that returned true the configuration
\* has no base_url and has llm_type; a run that follows it returns true and
\* leaves config.json and the backup files as they were.
C30_MigrationIdempotent ==
    /\ (AfterMigration /\ app_last.ret) =>
          /\ config_file.kind = "json"
          /\ "base_url" \notin DOMAIN config_file.data
          /\ "llm_type" \in DOMAIN config_file.data
    /\ (AfterMigration /\ app_last.again) =>
          /\ app_last.ret
          /\ config_file = app_last.pre_file
          /\ backup_files = app_last.pre_backups

\* A second run, a second after the run that wrote the backup, wrote none
C30_Witness ==
    /\ AfterMigration /\ app_last.again /\ app_last.ret
    /\ DOMAIN backup_files = {0}
    /\ app_last.seconds = 1
    /\ "api_url" \in DOMAIN config_file.data

====
